---------------------------- MODULE Spec2Model ----------------------------
(***************************************************************************)
(* A model of the quotation-harvesting pipeline of tgBot-Logosphera:       *)
(*   - merge_quotes.py       (Merger)                                      *)
(*   - import_to_postgres.py (Validator, Importer)                         *)
(*   - harvest_pipeline.py   (Pipeline Orchestrator)                       *)
(*   - harvest_*.py          (Source Harvesters)                           *)
(*                                                                         *)
(* A text is a sequence of characters; a character is a one-character      *)
(* string, and a non-ASCII character is written by its code point          *)
(* ("U+0430" is the Cyrillic small letter a).                              *)
(***************************************************************************)
EXTENDS Integers, Sequences, FiniteSets, TLC

VARIABLES
    fs,            \* the working directory: file name -> content
    merge_glob,    \* what glob.glob("*.json") returned to the last merge
    all_quotes,    \* the list merge_quotes returned last
    mphase,        \* "input" before merge_quotes ran, then how it ended
    store,         \* the committed rows of table quotations, in insert order
    db,            \* "ok", "no_url" (DB_URL unset) or "down" (connect raises)
    last_run,      \* the last call of import_to_postgres
    prev_run,      \* the call before it
    cfg,           \* the flags HarvestPipeline was constructed with
    pc,            \* where HarvestPipeline.run() stands
    cwd_scripts,   \* the files of the directory that match harvest_pattern
    scripts,       \* what find_harvest_scripts returned
    script_i,      \* the index of the script the harvest loop is at
    alive,         \* the harvester subprocesses that are running
    invoked,       \* the scripts started so far, in order
    pstats,        \* self.stats
    stage,         \* how each stage ended: "pending", "skipped", "ok", "failed"
    store0,        \* the committed rows when run() was called
    child_results, \* how the subprocess of each script ended in this run
    harvester,     \* the harvester script that runs on its own
    net,           \* what each endpoint answers to the availability probe
    hpc,           \* where the harvester stands
    probe_i,       \* the index of the endpoint the probe loop is at
    site_available,
    working_base_url,
    page,          \* the page the page loop is at
    pattern_i,     \* the index of the URL pattern tried for the page
    requests,      \* every requests.get issued so far, in order
    harvested,     \* the harvester's list `quotes`
    returned,      \* how the harvester function ended
    output_file,   \* the content of the harvester's output file
    vtext,         \* the text handed to the copies of is_valid_quotation
    vresult,       \* what each copy returned for it
    working_urls,  \* harvest_aphorizm_ru: the endpoints that answered the probe
    base_i,        \* harvest_aphorizm_ru: the index the loop over base_urls is at
    directory,     \* the entries of the directory find_harvest_scripts globs
    importers      \* the runs of import_to_postgres that share the store

merge_vars == <<merge_glob, all_quotes, mphase>>
import_vars == <<db, last_run, prev_run>>
pipe_vars == <<cfg, pc, cwd_scripts, scripts, script_i, alive, invoked, pstats,
               stage, store0, child_results>>

harv_vars == <<harvester, net, hpc, probe_i, site_available, working_base_url,
               page, pattern_i, requests, harvested, returned, output_file>>

val_vars == <<vtext, vresult>>

aph_vars == <<working_urls, base_i>>

dir_vars == <<directory>>

conc_vars == <<importers>>

vars == <<fs, store, merge_vars, import_vars, pipe_vars, harv_vars, val_vars,
          aph_vars, dir_vars, conc_vars>>

---------------------------------------------------------------------------
(* Characters and the str methods the code uses.                           *)

UpperLatin ==
    <<"A", "B", "C", "D", "E", "F", "G", "H", "I", "J", "K", "L", "M", "N",
      "O", "P", "Q", "R", "S", "T", "U", "V", "W", "X", "Y", "Z">>
LowerLatin ==
    <<"a", "b", "c", "d", "e", "f", "g", "h", "i", "j", "k", "l", "m", "n",
      "o", "p", "q", "r", "s", "t", "u", "v", "w", "x", "y", "z">>
UpperCyrillic ==
    <<"U+0410", "U+0411", "U+0412", "U+0413", "U+0414", "U+0415", "U+0416",
      "U+0417", "U+0418", "U+0419", "U+041A", "U+041B", "U+041C", "U+041D",
      "U+041E", "U+041F", "U+0420", "U+0421", "U+0422", "U+0423", "U+0424",
      "U+0425", "U+0426", "U+0427", "U+0428", "U+0429", "U+042A", "U+042B",
      "U+042C", "U+042D", "U+042E", "U+042F", "U+0401">>
LowerCyrillic ==
    <<"U+0430", "U+0431", "U+0432", "U+0433", "U+0434", "U+0435", "U+0436",
      "U+0437", "U+0438", "U+0439", "U+043A", "U+043B", "U+043C", "U+043D",
      "U+043E", "U+043F", "U+0440", "U+0441", "U+0442", "U+0443", "U+0444",
      "U+0445", "U+0446", "U+0447", "U+0448", "U+0449", "U+044A", "U+044B",
      "U+044C", "U+044D", "U+044E", "U+044F", "U+0451">>

Range(s) == {s[i] : i \in DOMAIN s}

Uppers == UpperLatin \o UpperCyrillic
Lowers == LowerLatin \o LowerCyrillic
UpperSet == Range(Uppers)
LowerSet == Range(Lowers)
AZ == Range(UpperLatin)
az == Range(LowerLatin)
Digits == {"0", "1", "2", "3", "4", "5", "6", "7", "8", "9"}
Whitespace == {" ", "\t", "\n"}

\* str.lower() of one character
LowerMap == [c \in UpperSet |-> Lowers[CHOOSE i \in DOMAIN Uppers : Uppers[i] = c]]

lower_char(c) == IF c \in UpperSet THEN LowerMap[c] ELSE c

\* str.lower()
lower(s) == [i \in DOMAIN s |-> lower_char(s[i])]

isspace(c) == c \in Whitespace

\* str.isupper() of one character
isupper(c) == c \in UpperSet

\* \w of the re module
is_word_char(c) == c \in UpperSet \cup LowerSet \cup Digits \cup {"_"}

SetMin(S) == CHOOSE x \in S : \A y \in S : x <= y
SetMax(S) == CHOOSE x \in S : \A y \in S : y <= x

\* str.strip()
strip(s) ==
    LET solid == {i \in DOMAIN s : ~isspace(s[i])}
    IN  IF solid = {} THEN <<>> ELSE SubSeq(s, SetMin(solid), SetMax(solid))

\* ' '.join(text.split()): runs of whitespace become one space, the ends
\* are stripped
join_split(s) ==
    LET t == strip(s)
        F[i \in 0..Len(t)] ==
            IF i = 0 THEN <<>>
            ELSE IF isspace(t[i])
                 THEN IF isspace(t[i - 1]) THEN F[i - 1]
                      ELSE Append(F[i - 1], " ")
                 ELSE Append(F[i - 1], t[i])
    IN  F[Len(t)]

---------------------------------------------------------------------------
(* The Validator: is_valid_quotation of import_to_postgres.py.             *)

MIN_LENGTH == 20
SPAM_RUN == 5

roman_letters == {"i", "v", "x", "l", "c", "d", "m"}
quote_marks == {"\"", "U+00AB", "U+00BB"}

place_keywords ==
    { <<"s", "t", "r", "e", "e", "t">>,
      <<"a", "v", "e", "n", "u", "e">>,
      <<"r", "o", "a", "d">>,
      <<"d", "r", "i", "v", "e">>,
      <<"U+0443", "U+043B", "U+0438", "U+0446", "U+0430">>,
      <<"U+043F", "U+0440", "U+043E", "U+0441", "U+043F", "U+0435", "U+043A", "U+0442">>,
      <<"U+043F", "U+0435", "U+0440", "U+0435", "U+0443", "U+043B", "U+043E", "U+043A">>,
      <<"m", "o", "s", "c", "o", "w">>,
      <<"l", "o", "n", "d", "o", "n">>,
      <<"p", "a", "r", "i", "s">> }

month_names ==
    { <<"j", "a", "n", "u", "a", "r", "y">>,
      <<"f", "e", "b", "r", "u", "a", "r", "y">>,
      <<"m", "a", "r", "c", "h">>,
      <<"a", "p", "r", "i", "l">>,
      <<"m", "a", "y">>,
      <<"j", "u", "n", "e">>,
      <<"j", "u", "l", "y">>,
      <<"a", "u", "g", "u", "s", "t">>,
      <<"s", "e", "p", "t", "e", "m", "b", "e", "r">>,
      <<"o", "c", "t", "o", "b", "e", "r">>,
      <<"n", "o", "v", "e", "m", "b", "e", "r">>,
      <<"d", "e", "c", "e", "m", "b", "e", "r">>,
      <<"U+044F", "U+043D", "U+0432", "U+0430", "U+0440", "U+044C">>,
      <<"U+0444", "U+0435", "U+0432", "U+0440", "U+0430", "U+043B", "U+044C">>,
      <<"U+043C", "U+0430", "U+0440", "U+0442">>,
      <<"U+0430", "U+043F", "U+0440", "U+0435", "U+043B", "U+044C">>,
      <<"U+043C", "U+0430", "U+0439">>,
      <<"U+0438", "U+044E", "U+043D", "U+044C">>,
      <<"U+0438", "U+044E", "U+043B", "U+044C">>,
      <<"U+0430", "U+0432", "U+0433", "U+0443", "U+0441", "U+0442">>,
      <<"U+0441", "U+0435", "U+043D", "U+0442", "U+044F", "U+0431", "U+0440", "U+044C">>,
      <<"U+043E", "U+043A", "U+0442", "U+044F", "U+0431", "U+0440", "U+044C">>,
      <<"U+043D", "U+043E", "U+044F", "U+0431", "U+0440", "U+044C">>,
      <<"U+0434", "U+0435", "U+043A", "U+0430", "U+0431", "U+0440", "U+044C">> }

theater_keywords ==
    { <<"a", "c", "t">>,
      <<"s", "c", "e", "n", "e">>,
      <<"p", "a", "g", "e">>,
      <<"c", "h", "a", "p", "t", "e", "r">>,
      <<"U+0430", "U+043A", "U+0442">>,
      <<"U+0441", "U+0446", "U+0435", "U+043D", "U+0430">>,
      <<"U+0441", "U+0442", "U+0440", "U+0430", "U+043D", "U+0438", "U+0446", "U+0430">>,
      <<"U+0433", "U+043B", "U+0430", "U+0432", "U+0430">> }

url_markers ==
    { <<"h", "t", "t", "p", ":", "/", "/">>,
      <<"h", "t", "t", "p", "s", ":", "/", "/">>,
      <<"w", "w", "w", ".">>,
      <<"@">> }

\* \b between positions i-1 and i of t (i in 1..Len(t)+1)
word_boundary(t, i) ==
    LET before == i > 1 /\ is_word_char(t[i - 1])
        after == i <= Len(t) /\ is_word_char(t[i])
    IN  before # after

\* re.search(w, text, re.IGNORECASE) for a literal w
search_literal(t, w) ==
    \E i \in 1..(Len(t) - Len(w) + 1) :
        lower(SubSeq(t, i, i + Len(w) - 1)) = w

\* re.search(r'\bw\b', text, re.IGNORECASE) for a literal word w
search_word(t, w) ==
    \E i \in 1..(Len(t) - Len(w) + 1) :
        /\ lower(SubSeq(t, i, i + Len(w) - 1)) = w
        /\ word_boundary(t, i)
        /\ word_boundary(t, i + Len(w))

\* re.search(r'\d', text)
has_digit(t) == \E i \in DOMAIN t : t[i] \in Digits

\* re.search(r'\b[IVXLCDM]{2,}\b', text, re.IGNORECASE)
has_roman_numeral(t) ==
    \E i \in DOMAIN t : \E j \in (i + 1)..Len(t) :
        /\ \A k \in i..j : lower_char(t[k]) \in roman_letters
        /\ word_boundary(t, i)
        /\ word_boundary(t, j + 1)

\* [A-Z][a-z]+ occupying exactly the positions i..j of t
cap_word(t, i, j) ==
    /\ 1 <= i /\ i < j /\ j <= Len(t)
    /\ t[i] \in AZ
    /\ \A k \in (i + 1)..j : t[k] \in az

\* re.search(r'\b[A-Z][a-z]+\s+[A-Z][a-z]+', text)
has_two_cap_words(t) ==
    \E i \in DOMAIN t : \E j \in (i + 1)..Len(t) : \E n \in (j + 1)..Len(t) :
        /\ word_boundary(t, i)
        /\ cap_word(t, i, j)
        /\ \A k \in (j + 1)..n : isspace(t[k])
        /\ cap_word(t, n + 1, n + 2)

\* re.search(r'["«»""][A-Z][a-z]+.*[A-Z][a-z]+["«»""]', text)
has_quoted_title(t) ==
    \E i \in DOMAIN t : \E p \in (i + 3)..Len(t) : \E q \in (p + 1)..Len(t) :
        /\ t[i] \in quote_marks
        /\ cap_word(t, i + 1, i + 2)
        /\ \A k \in (i + 1)..q : t[k] # "\n"
        /\ cap_word(t, p, q)
        /\ q + 1 <= Len(t)
        /\ t[q + 1] \in quote_marks

\* re.search(r'(.)\1{4,}', text)
has_spam_run(t) ==
    \E i \in 1..(Len(t) - SPAM_RUN + 1) :
        /\ t[i] # "\n"
        /\ \A k \in i..(i + SPAM_RUN - 1) : t[k] = t[i]

is_valid_quotation(text) ==
    IF text = <<>> \/ Len(strip(text)) < MIN_LENGTH THEN FALSE
    ELSE LET t == join_split(text) IN
         IF has_digit(t) THEN FALSE
         ELSE IF has_roman_numeral(t) THEN FALSE
         ELSE IF has_two_cap_words(t) /\ ~isupper(t[1]) THEN FALSE
         ELSE IF \E w \in place_keywords : search_word(t, w) THEN FALSE
         ELSE IF has_quoted_title(t) THEN FALSE
         ELSE IF \E w \in url_markers : search_literal(t, w) THEN FALSE
         ELSE IF \E w \in month_names : search_word(t, w) THEN FALSE
         ELSE IF \E w \in theater_keywords : search_word(t, w) THEN FALSE
         ELSE IF has_spam_run(t) THEN FALSE
         ELSE TRUE

---------------------------------------------------------------------------
(* Sample texts.                                                           *)

\* "Time heals all wounds."
T_time ==
    <<"T", "i", "m", "e", " ", "h", "e", "a", "l", "s", " ", "a", "l", "l",
      " ", "w", "o", "u", "n", "d", "s", ".">>
\* "time heals all wounds."
T_time_lc ==
    <<"t", "i", "m", "e", " ", "h", "e", "a", "l", "s", " ", "a", "l", "l",
      " ", "w", "o", "u", "n", "d", "s", ".">>
\* " time heals all wounds. "
T_time_pad ==
    <<" ", "t", "i", "m", "e", " ", "h", "e", "a", "l", "s", " ", "a", "l",
      "l", " ", "w", "o", "u", "n", "d", "s", ".", " ">>
\* "Time  heals all wounds."
T_time_2sp ==
    <<"T", "i", "m", "e", " ", " ", "h", "e", "a", "l", "s", " ", "a", "l",
      "l", " ", "w", "o", "u", "n", "d", "s", ".">>
\* "Meet me on Oak Street at 5."
T_oak ==
    <<"M", "e", "e", "t", " ", "m", "e", " ", "o", "n", " ", "O", "a", "k",
      " ", "S", "t", "r", "e", "e", "t", " ", "a", "t", " ", "5", ".">>
\* "Too short."
T_short ==
    <<"T", "o", "o", " ", "s", "h", "o", "r", "t", ".">>
\* "  "
T_blank ==
    <<" ", " ">>
\* "Still waters run deep."
T_deep ==
    <<"S", "t", "i", "l", "l", " ", "w", "a", "t", "e", "r", "s", " ", "r",
      "u", "n", " ", "d", "e", "e", "p", ".">>
\* "Tishe edesh', dal'she budesh'." in Cyrillic (a Russian proverb)
T_tishe ==
    <<"U+0422", "U+0438", "U+0448", "U+0435", " ", "U+0435", "U+0434",
      "U+0435", "U+0448", "U+044C", ",", " ", "U+0434", "U+0430", "U+043B",
      "U+044C", "U+0448", "U+0435", " ", "U+0431", "U+0443", "U+0434",
      "U+0435", "U+0448", "U+044C", ".">>

\* "Ab c", " ab c ", "Ab  c", " "
S_abc == <<"A", "b", " ", "c">>
S_abc_pad == <<" ", "a", "b", " ", "c", " ">>
S_abc_2sp == <<"A", "b", " ", " ", "c">>
S_blank == <<" ">>

\* a JSON null where a string is expected
NullText == <<"null">>
NoAuthor == "None"


---------------------------------------------------------------------------
(* The working directory and the harvester output files.                   *)

Absent == [kind |-> "absent", data |-> <<>>]
\* a file json.load raises on
Garbage == [kind |-> "garbage", data |-> <<>>]
\* a file holding a JSON array
Batch(qs) == [kind |-> "list", data |-> qs]

CORPUS_JSON == "ALL_QUOTES.json"
SlotNames == <<"goodreads.json", "zenquotes.json", "wikiquote_ru.json">>
SourceOf == [f \in Range(SlotNames) |->
                IF f = "goodreads.json" THEN "goodreads"
                ELSE IF f = "zenquotes.json" THEN "zenquotes" ELSE "wikiquote_ru"]
FileNames == Range(SlotNames) \cup {CORPUS_JSON}
Langs == {"en", "ru"}

Quote(t, a, s, l) == [text |-> t, author |-> a, source |-> s, lang |-> l]

\* the corpus a previous run left behind
StaleCorpus == Batch(<<Quote(T_deep, NoAuthor, "wikiquote_ru", "en")>>)

---------------------------------------------------------------------------
(* The Importer: import_to_postgres of import_to_postgres.py.              *)

\* VARCHAR(255) of column author, and the commit interval
MAX_AUTHOR == 255
COMMIT_EVERY == 100

\* a record without the key "lang"
MissingLang == "absent"
\* an author of more than 255 characters
LongAuthor == "LongAuthor"
author_length(a) == IF a = LongAuthor THEN MAX_AUTHOR + 1 ELSE 0

Row(t, l, a, s, tags) ==
    [text_original |-> t, language_original |-> l, text_translated |-> "NULL",
     author |-> a, source_url |-> s, tags |-> tags]

ZeroStats == [loaded |-> 0, saved |-> 0, skipped |-> 0, errors |-> 0]

\* the rows this connection's statements see: the committed ones and its
\* own uncommitted inserts
visible_rows_committed_only(st) == st.store
visible_rows(st) == st.store \o st.pending

existing_never(rows, text, lang) == FALSE
\* SELECT id FROM quotations WHERE text_original = %s AND
\* language_original = %s (lines 335-340)
existing(rows, text, lang) ==
    \E i \in DOMAIN rows :
        rows[i].text_original = text /\ rows[i].language_original = lang

\* the INSERT of lines 346-350 raises: UNIQUE(text_original,
\* language_original) or VARCHAR(255) is violated
insert_raises(rows, text, lang, author) ==
    \/ existing(rows, text, lang)
    \/ author_length(author) > MAX_AUTHOR

\* conn.commit()
commit(st) == [st EXCEPT !.store = st.store \o st.pending, !.pending = <<>>]

\* the except clause of lines 358-362: conn.rollback() drops every insert
\* since the last commit
on_error(st) == [st EXCEPT !.stats.errors = @ + 1, !.pending = <<>>]

skip_uncounted(st) == st
\* stats["skipped"] += 1; continue (lines 326-327, 331-332, 342-343)
skip(st) == [st EXCEPT !.stats.skipped = @ + 1]

valid_always(text) == TRUE
\* memoized is_valid_quotation for the texts of the model
KnownTexts ==
    {T_time, T_time_lc, T_time_pad, T_time_2sp, T_oak, T_short, T_deep, T_tishe}
KnownValid == {t \in KnownTexts : is_valid_quotation(t)}
valid(text) ==
    IF text \in KnownTexts THEN text \in KnownValid ELSE is_valid_quotation(text)

\* the loop body, lines 318-362
import_quote(st, quote) ==
    IF quote.text = NullText THEN on_error(st)
    ELSE LET text == strip(quote.text)
             author == quote.author
             source == quote.source
             lang == IF quote.lang = MissingLang THEN "en" ELSE quote.lang
         IN  IF text = <<>> THEN skip(st)
             ELSE IF ~valid(text) THEN skip(st)
             ELSE IF existing(visible_rows(st), text, lang) THEN skip(st)
             ELSE IF insert_raises(visible_rows(st), text, lang, author)
                  THEN on_error(st)
             ELSE LET saved == [st EXCEPT
                                  !.pending = Append(@, Row(text, lang, author,
                                                            source, <<"general">>)),
                                  !.stats.saved = @ + 1]
                  IN  IF saved.stats.saved % COMMIT_EVERY = 0
                      THEN commit(saved) ELSE saved

RECURSIVE import_loop(_, _, _)
import_loop(st, quotes, i) ==
    IF i > Len(quotes) THEN st
    ELSE import_loop(import_quote(st, quotes[i]), quotes, i + 1)

\* import_to_postgres(input_file, clear_existing) against the committed
\* rows `rows` with the store in state `dbstate`: the rows it leaves and the
\* stats it returns; `completed` tells that it got through the loop
import_to_postgres_clear_first(file, clear_existing, rows, dbstate) ==
    LET cleared == IF clear_existing /\ dbstate = "ok" THEN <<>> ELSE rows IN
    IF file.kind # "list"
    THEN [store |-> cleared, stats |-> ZeroStats, completed |-> FALSE]
    ELSE LET quotes == file.data
             stats == [ZeroStats EXCEPT !.loaded = Len(quotes)]
         IN  IF dbstate # "ok"
             THEN [store |-> rows, stats |-> stats, completed |-> FALSE]
             ELSE LET st == import_loop([store |-> cleared, pending |-> <<>>,
                                         stats |-> stats], quotes, 1)
                  IN  [store |-> commit(st).store, stats |-> st.stats,
                       completed |-> TRUE]
import_to_postgres_never_clears(file, clear_existing, rows, dbstate) ==
    IF file.kind # "list"
    THEN [store |-> rows, stats |-> ZeroStats, completed |-> FALSE]
    ELSE LET quotes == file.data
             stats == [ZeroStats EXCEPT !.loaded = Len(quotes)]
         IN  IF dbstate # "ok"
             THEN [store |-> rows, stats |-> stats, completed |-> FALSE]
             ELSE LET st == import_loop([store |-> rows, pending |-> <<>>,
                                         stats |-> stats], quotes, 1)
                  IN  [store |-> commit(st).store, stats |-> st.stats,
                       completed |-> TRUE]
import_to_postgres(file, clear_existing, rows, dbstate) ==
    IF file.kind # "list"
    THEN [store |-> rows, stats |-> ZeroStats, completed |-> FALSE]
    ELSE LET quotes == file.data
             stats == [ZeroStats EXCEPT !.loaded = Len(quotes)]
         IN  IF dbstate # "ok"
             THEN [store |-> rows, stats |-> stats, completed |-> FALSE]
             ELSE LET cleared == IF clear_existing THEN <<>> ELSE rows
                      st == import_loop([store |-> cleared, pending |-> <<>>,
                                         stats |-> stats], quotes, 1)
                  IN  [store |-> commit(st).store, stats |-> st.stats,
                       completed |-> TRUE]

NoRun == [ran |-> FALSE, clear |-> FALSE, before |-> <<>>, after |-> <<>>,
          stats |-> ZeroStats, completed |-> FALSE]

MergeIdle ==
    /\ merge_glob = <<>>
    /\ all_quotes = <<>>
    /\ mphase = "input"

ImportIdle ==
    /\ store = <<>>
    /\ db = "ok"
    /\ last_run = NoRun
    /\ prev_run = NoRun

\* self.stats as __init__ builds it (lines 68-88)
ZeroPipeStats ==
    [harvest |-> [total |-> 0, success |-> 0, failed |-> 0, skipped |-> 0,
                  total_quotes |-> 0],
     merge |-> [output_quotes |-> 0],
     import |-> ZeroStats]

NoStageRan == [harvest |-> "pending", merge |-> "pending", import |-> "pending"]

DefaultFlags ==
    [skip_harvest |-> FALSE, skip_merge |-> FALSE, skip_import |-> FALSE,
     clear_db |-> FALSE, stats_only |-> FALSE]

PipeIdle ==
    /\ cfg = DefaultFlags
    /\ pc = "idle"
    /\ cwd_scripts = {}
    /\ scripts = <<>>
    /\ script_i = 0
    /\ alive = {}
    /\ invoked = <<>>
    /\ pstats = ZeroPipeStats
    /\ stage = NoStageRan
    /\ store0 = <<>>
    /\ child_results = <<>>

NotReturned == [kind |-> "running", value |-> <<>>]

HarvIdle ==
    /\ harvester = "none"
    /\ net = <<>>
    /\ hpc = "idle"
    /\ probe_i = 0
    /\ site_available = FALSE
    /\ working_base_url = "none"
    /\ page = 0
    /\ pattern_i = 0
    /\ requests = <<>>
    /\ harvested = <<>>
    /\ returned = NotReturned
    /\ output_file = Absent

\* no copy of is_valid_quotation has been called
NotValidated == [importer |-> "none", citaty_net |-> "none", citaty_info |-> "none"]
ValidatorIdle ==
    /\ vtext = <<>>
    /\ vresult = NotValidated

\* harvest_aphorizm_ru is not running
AphorizmIdle ==
    /\ working_urls = <<>>
    /\ base_i = 1

\* no directory is listed on its own
DirectoryIdle == directory = {}

\* no runs of the importer share the store
ImportersIdle == importers = <<>>

---------------------------------------------------------------------------
(* The Merger: merge_quotes of merge_quotes.py.                            *)

\* the key of the seen-set (line 57)
seen_key_no_lower(q) == strip(q.text)
seen_key_with_lang(q) ==
    IF strip(q.text) = <<>> THEN <<>> ELSE <<lower(strip(q.text)), q.lang>>
seen_key(q) == lower(strip(q.text))

\* what is appended to all_quotes (line 60)
kept_quote_stripped(q) == [q EXCEPT !.text = strip(q.text)]
kept_quote(q) == q

\* the loop over one file's quotes (lines 56-60); q.get("text", "").strip()
\* raises on a text that is no string, and the except clause of lines 64-66
\* then leaves the rest of the file unread
RECURSIVE merge_file(_, _, _)
merge_file(acc, quotes, i) ==
    IF i > Len(quotes) THEN acc
    ELSE LET q == quotes[i] IN
         IF q.text = NullText THEN acc
         ELSE LET text == seen_key(q) IN
              IF text # <<>> /\ text \notin acc.seen_texts
              THEN merge_file([all_quotes |-> Append(acc.all_quotes, kept_quote(q)),
                               seen_texts |-> acc.seen_texts \cup {text}],
                              quotes, i + 1)
              ELSE merge_file(acc, quotes, i + 1)

\* the loop over the files (lines 49-66)
RECURSIVE merge_files(_, _, _, _)
merge_files(acc, json_files, files, n) ==
    IF n > Len(json_files) THEN acc
    ELSE LET file == files[json_files[n]] IN
         IF file.kind = "list"
         THEN merge_files(merge_file(acc, file.data, 1), json_files, files, n + 1)
         ELSE merge_files(acc, json_files, files, n + 1)

\* lines 39-68: the list merge_quotes builds from what glob returned
merge_quotes(glob_result, files, exclude_files) ==
    LET json_files == SelectSeq(glob_result, LAMBDA f : f \notin exclude_files)
    IN  merge_files([all_quotes |-> <<>>, seen_texts |-> {}],
                    json_files, files, 1).all_quotes

\* the exclude list run_merge_stage passes
PIPELINE_EXCLUDE == {"ALL_QUOTES.json", "ALL_QUOTES.txt", "harvest_pipeline.log"}

\* glob.glob("*.json"): the files that exist, in the order the directory
\* yields them
Perms(S) ==
    {p \in [1..Cardinality(S) -> S] : \A i, j \in DOMAIN p : i # j => p[i] # p[j]}
glob_json(files) == Perms({f \in DOMAIN files : files[f].kind # "absent"})

---------------------------------------------------------------------------
(* merge_quotes run on its own over every content of the directory.        *)

MaxEntries == 3

SlotEntries(f) ==
    {Quote(t, NoAuthor, SourceOf[f], l) : t \in {S_abc, S_abc_pad}, l \in Langs}
        \cup {Quote(t, NoAuthor, SourceOf[f], "en") : t \in {S_abc_2sp, S_blank, NullText}}

SlotContents(f, n) ==
    {Absent, Garbage}
        \cup UNION {{Batch(qs) : qs \in [1..k -> SlotEntries(f)]} : k \in 0..n}

MergeInit ==
    /\ \E c1 \in SlotContents(SlotNames[1], MaxEntries) :
       \E c2 \in SlotContents(SlotNames[2], MaxEntries - Len(c1.data)) :
       \E old \in {Absent, StaleCorpus} :
            fs = [f \in FileNames |->
                    IF f = SlotNames[1] THEN c1
                    ELSE IF f = SlotNames[2] THEN c2
                    ELSE IF f = CORPUS_JSON THEN old ELSE Absent]
    /\ merge_glob = <<>>
    /\ all_quotes = <<>>
    /\ mphase = "input"
    /\ ImportIdle
    /\ PipeIdle
    /\ HarvIdle
    /\ ValidatorIdle
    /\ AphorizmIdle
    /\ DirectoryIdle
    /\ ImportersIdle

\* merge_quotes returns: both sinks are written when the list is non-empty
\* (lines 70-87)
MergeReturns ==
    /\ mphase = "input"
    /\ \E g \in glob_json(fs) :
        LET quotes == merge_quotes(g, fs, PIPELINE_EXCLUDE) IN
        /\ merge_glob' = g
        /\ all_quotes' = quotes
        /\ fs' = IF quotes # <<>>
                 THEN [fs EXCEPT ![CORPUS_JSON] = Batch(quotes)]
                 ELSE fs
    /\ mphase' = "merged"
    /\ UNCHANGED <<dir_vars, conc_vars, val_vars, aph_vars, store, import_vars, pipe_vars, harv_vars>>

\* merge_quotes raises: open() or the write of a sink fails (lines 72-85)
MergeRaises ==
    /\ mphase = "input"
    /\ \E g \in glob_json(fs) :
        LET quotes == merge_quotes(g, fs, PIPELINE_EXCLUDE) IN
        /\ quotes # <<>>
        /\ merge_glob' = g
        /\ all_quotes' = <<>>
        /\ fs' = [fs EXCEPT ![CORPUS_JSON] = Garbage]
    /\ mphase' = "raised"
    /\ UNCHANGED <<dir_vars, conc_vars, val_vars, aph_vars, store, import_vars, pipe_vars, harv_vars>>

MergeNext == MergeReturns \/ MergeRaises

SpecMerge == MergeInit /\ [][MergeNext]_vars

---------------------------------------------------------------------------
(* Claims about merge_quotes.                                              *)

\* the input batches of the last merge, in iteration order
MergedFiles == SelectSeq(merge_glob, LAMBDA f : f \notin PIPELINE_EXCLUDE)

\* a batch up to its first malformed entry (what the loop gets to iterate)
ReadPrefix(qs) ==
    LET bad == {i \in DOMAIN qs : qs[i].text = NullText}
    IN  IF bad = {} THEN qs ELSE SubSeq(qs, 1, SetMin(bad) - 1)

RECURSIVE ConcatBatches(_, _)
ConcatBatches(n, whole) ==
    IF n = 0 THEN <<>>
    ELSE LET file == fs[MergedFiles[n]]
             part == IF file.kind # "list" THEN <<>>
                     ELSE IF whole THEN file.data ELSE ReadPrefix(file.data)
         IN  ConcatBatches(n - 1, whole) \o part

\* the concatenation of the input batches in iteration order
MergeInput == ConcatBatches(Len(MergedFiles), TRUE)
\* the records of it the merger reads
MergeRead == ConcatBatches(Len(MergedFiles), FALSE)

FirstIndex(seq, P(_)) == SetMin({i \in DOMAIN seq : P(seq[i])})
CountOf(seq, P(_)) == Cardinality({i \in DOMAIN seq : P(seq[i])})

\* the spec's normalization: whitespace collapsed, ends stripped, case-folded
NormalizedText(q) == lower(join_split(q.text))
\* the text stripped and lower-cased
StrippedLowerText(q) == lower(strip(q.text))

\* exactly one record with key K(q) is in the corpus: the first one read
OnlyFirstKept(K(_), q) ==
    LET same(r) == K(r) = K(q) IN
    /\ CountOf(all_quotes, same) = 1
    /\ all_quotes[FirstIndex(all_quotes, same)] = MergeRead[FirstIndex(MergeRead, same)]

C11_DifferentLangBothRetained ==
    mphase = "merged" =>
        \A i, j \in DOMAIN MergeRead :
            (/\ i < j
             /\ NormalizedText(MergeRead[i]) # <<>>
             /\ NormalizedText(MergeRead[i]) = NormalizedText(MergeRead[j])
             /\ MergeRead[i].lang # MergeRead[j].lang)
                => \A k \in {i, j} :
                     \E m \in DOMAIN all_quotes :
                        /\ NormalizedText(all_quotes[m]) = NormalizedText(MergeRead[k])
                        /\ all_quotes[m].lang = MergeRead[k].lang

\* C11 amended: the key is the stripped, lower-cased text alone; of two records
\* read with equal keys and different language tags the later one is
\* dropped, so the corpus never holds one key under two languages.
C11_DifferentLangLaterDropped ==
    mphase = "merged" =>
        \A i, j \in DOMAIN MergeRead :
            (/\ i < j
             /\ StrippedLowerText(MergeRead[i]) # <<>>
             /\ StrippedLowerText(MergeRead[i]) = StrippedLowerText(MergeRead[j])
             /\ MergeRead[i].lang # MergeRead[j].lang)
                => LET same(r) == StrippedLowerText(r) = StrippedLowerText(MergeRead[i])
                       first == MergeRead[FirstIndex(MergeRead, same)]
                   IN  \A m \in DOMAIN all_quotes :
                          same(all_quotes[m]) => all_quotes[m].lang = first.lang

\* an English and a Russian record with one key were read from different
\* batches, and the corpus holds that key once
C11_Witness ==
    /\ mphase = "merged"
    /\ \E i, j \in DOMAIN MergeRead :
        /\ i < j
        /\ MergeRead[i].source # MergeRead[j].source
        /\ StrippedLowerText(MergeRead[i]) # <<>>
        /\ StrippedLowerText(MergeRead[i]) = StrippedLowerText(MergeRead[j])
        /\ MergeRead[i].lang = "en" /\ MergeRead[j].lang = "ru"
        /\ \E m \in DOMAIN all_quotes : all_quotes[m] = MergeRead[i]
        /\ \A m \in DOMAIN all_quotes : all_quotes[m] # MergeRead[j]

\* a is b with some elements left out, matched to their first occurrences
RECURSIVE IsSubsequence(_, _)
IsSubsequence(a, b) ==
    IF a = <<>> THEN TRUE
    ELSE IF b = <<>> THEN FALSE
    ELSE IF Head(a) = Head(b) THEN IsSubsequence(Tail(a), Tail(b))
    ELSE IsSubsequence(a, Tail(b))

\* C10: the unified corpus is a subsequence of the concatenation of the
\* input batches in iteration order: every record is an unmodified input
\* record, and the records stand in the order of their first occurrences.
C10_CorpusIsSubsequence ==
    mphase = "merged" =>
        /\ IsSubsequence(all_quotes, MergeInput)
        /\ \A m, n \in DOMAIN all_quotes :
            m < n => LET isM(r) == r = all_quotes[m]
                         isN(r) == r = all_quotes[n]
                     IN  FirstIndex(MergeInput, isM) < FirstIndex(MergeInput, isN)
        /\ fs[CORPUS_JSON] \in {Batch(all_quotes), Absent, StaleCorpus}
        /\ all_quotes # <<>> => fs[CORPUS_JSON] = Batch(all_quotes)

\* a merge over two batches that dropped a duplicate and kept records of both
C10_Witness ==
    /\ mphase = "merged"
    /\ \E i, j \in DOMAIN MergeRead :
        i < j /\ seen_key(MergeRead[i]) # <<>>
              /\ seen_key(MergeRead[i]) = seen_key(MergeRead[j])
    /\ \E m, n \in DOMAIN all_quotes : all_quotes[m].source # all_quotes[n].source
    /\ \E m \in DOMAIN all_quotes : all_quotes[m].text # strip(all_quotes[m].text)

\* C28 (as stated): the corpus a merge returned is the corpus it returns for
\* every order in which the directory can yield the same files
C28_MergeOrderDeterministic ==
    mphase = "merged" =>
        \A g \in glob_json(fs) :
            merge_quotes(g, fs, PIPELINE_EXCLUDE) = all_quotes

---------------------------------------------------------------------------
(* import_to_postgres run again and again on one corpus file.              *)

MaxCorpus == 3

CorpusQuotes ==
    { Quote(T_time, NoAuthor, "zenquotes", "en"),
      Quote(T_time_pad, NoAuthor, "goodreads", "en"),
      Quote(T_time, LongAuthor, "goodreads", "ru"),
      Quote(T_time, NoAuthor, "zenquotes", MissingLang),
      Quote(T_oak, NoAuthor, "zenquotes", "en"),
      Quote(S_blank, NoAuthor, "zenquotes", "en") }

CorpusContents(n) ==
    {Absent, Garbage}
        \cup UNION {{Batch(qs) : qs \in [1..k -> CorpusQuotes]} : k \in 0..n}

\* stores a previous import (or the bot's loader) left behind
InitialStores ==
    { <<>>,
      <<Row(T_time, "en", "Seneca", "seed", <<"wisdom">>)>>,
      <<Row(T_time_lc, "en", NoAuthor, "seed", <<"general">>),
        Row(T_time, "ru", NoAuthor, "seed", <<"general">>)>> }

ImportInit ==
    /\ \E c \in CorpusContents(MaxCorpus) :
        fs = [f \in FileNames |-> IF f = CORPUS_JSON THEN c ELSE Absent]
    /\ store \in InitialStores
    /\ db \in {"ok", "no_url", "down"}
    /\ last_run = NoRun
    /\ prev_run = NoRun
    /\ MergeIdle
    /\ PipeIdle
    /\ HarvIdle
    /\ ValidatorIdle
    /\ AphorizmIdle
    /\ DirectoryIdle
    /\ ImportersIdle

ImportRun(clear_existing) ==
    LET r == import_to_postgres(fs[CORPUS_JSON], clear_existing, store, db) IN
    /\ store' = r.store
    /\ prev_run' = last_run
    /\ last_run' = [ran |-> TRUE, clear |-> clear_existing, before |-> store,
                    after |-> r.store, stats |-> r.stats,
                    completed |-> r.completed]
    /\ UNCHANGED <<dir_vars, conc_vars, val_vars, aph_vars, fs, db, merge_vars, pipe_vars, harv_vars>>

\* python import_to_postgres.py
ImportKeep == ImportRun(FALSE)
\* python import_to_postgres.py --clear
ImportClear == ImportRun(TRUE)

ImportNext == ImportKeep \/ ImportClear

SpecImport == ImportInit /\ [][ImportNext]_vars

---------------------------------------------------------------------------
(* Claims about import_to_postgres.                                        *)

\* C2: two consecutive imports of the same corpus with clearFirst=false that
\* both ran to completion: the second leaves the store as the first left it
\* and reports saved == 0.
C2_ImportIdempotent ==
    (/\ prev_run.completed /\ ~prev_run.clear
     /\ last_run.completed /\ ~last_run.clear)
        => /\ last_run.after = prev_run.after
           /\ last_run.stats.saved = 0

UniqueKeys(rows) ==
    \A i, j \in DOMAIN rows :
        (/\ rows[i].text_original = rows[j].text_original
         /\ rows[i].language_original = rows[j].language_original) => i = j

\* C3: after any import run no two persisted rows share
\* (text_original, language_original).
C3_ImportKeepsKeysUnique == last_run.ran => UniqueKeys(store)

\* an import into a non-empty store of a corpus that repeats a record: some
\* records were saved and some skipped
C3_Witness ==
    /\ last_run.completed
    /\ ~last_run.clear
    /\ last_run.before # <<>>
    /\ last_run.stats.saved >= 1
    /\ last_run.stats.skipped >= 1
    /\ LET qs == fs[CORPUS_JSON].data IN
       \E i, j \in DOMAIN qs :
            /\ i < j
            /\ strip(qs[i].text) = strip(qs[j].text)
            /\ valid(strip(qs[i].text))
            /\ ~existing(last_run.before, strip(qs[i].text), "en")
            /\ {qs[i].lang, qs[j].lang} \subseteq {"en", MissingLang}

\* the key the importer looks a corpus record up by (lines 319-322, 335-340)
RecordText(q) == strip(q.text)
RecordLang(q) == IF q.lang = MissingLang THEN "en" ELSE q.lang
HasKeyIn(rows, q) ==
    \E k \in DOMAIN rows :
        /\ rows[k].text_original = RecordText(q)
        /\ rows[k].language_original = RecordLang(q)

\* the corpus records of the last run that have a text
TextRecords ==
    LET qs == fs[CORPUS_JSON].data IN {i \in DOMAIN qs : qs[i].text # NullText}

\* the rows the last run inserted
InsertedRows ==
    IF last_run.clear /\ last_run.completed THEN last_run.after
    ELSE SubSeq(last_run.after, Len(last_run.before) + 1, Len(last_run.after))

\* C12: an import without --clear leaves the rows the store held before it
\* in place and unchanged, and counts as skipped every corpus record whose
\* (text, language) the store already held.
C12_ImportKeepsExistingRows ==
    (last_run.ran /\ ~last_run.clear) =>
        /\ Len(last_run.after) >= Len(last_run.before)
        /\ SubSeq(last_run.after, 1, Len(last_run.before)) = last_run.before
        /\ last_run.completed =>
            LET qs == fs[CORPUS_JSON].data
                dup == {i \in TextRecords : HasKeyIn(last_run.before, qs[i])}
            IN  /\ last_run.stats.skipped >= Cardinality(dup)
                /\ \A m \in DOMAIN InsertedRows :
                     \A k \in DOMAIN last_run.before :
                        \/ InsertedRows[m].text_original
                                # last_run.before[k].text_original
                        \/ InsertedRows[m].language_original
                                # last_run.before[k].language_original

\* a record whose key the store held under another author was imported
\* without --clear, next to a record that was saved
C12_Witness ==
    /\ last_run.completed
    /\ ~last_run.clear
    /\ last_run.stats.saved >= 1
    /\ LET qs == fs[CORPUS_JSON].data IN
       \E i \in TextRecords : \E k \in DOMAIN last_run.before :
            /\ last_run.before[k].text_original = RecordText(qs[i])
            /\ last_run.before[k].language_original = RecordLang(qs[i])
            /\ last_run.before[k].author # qs[i].author
            /\ last_run.before[k].tags # <<"general">>

\* row r is what the INSERT of lines 346-350 makes of corpus record q
RowOf(r, q) ==
    /\ q.text # NullText
    /\ r = Row(RecordText(q), RecordLang(q), q.author, q.source, <<"general">>)

FromCorpus(rows) ==
    \A m \in DOMAIN rows :
        \E i \in DOMAIN fs[CORPUS_JSON].data : RowOf(rows[m], fs[CORPUS_JSON].data[i])

\* C26 (as stated): after every run with --clear the store holds only rows
\* made of corpus records, and a run without --clear deletes nothing
C26_ClearLeavesOnlyCorpusRows ==
    last_run.ran =>
        /\ last_run.clear => FromCorpus(last_run.after)
        /\ ~last_run.clear =>
              SubSeq(last_run.after, 1, Len(last_run.before)) = last_run.before

\* C26 (amended): a run with --clear that read the corpus file and reached
\* the store leaves only rows made of corpus records, no more of them than
\* it counted as saved; a run with --clear
\* that could not read the corpus or reach the store deletes nothing; a run
\* without --clear deletes nothing
C26_ClearDeletesWhenImportStarts ==
    last_run.ran =>
        /\ (last_run.clear /\ last_run.completed) =>
              /\ FromCorpus(last_run.after)
              /\ Len(last_run.after) <= last_run.stats.saved
        /\ (last_run.clear /\ ~last_run.completed) =>
              last_run.after = last_run.before
        /\ ~last_run.clear =>
              /\ Len(last_run.after) >= Len(last_run.before)
              /\ SubSeq(last_run.after, 1, Len(last_run.before)) = last_run.before

\* a run with --clear over a store of two seed rows has saved a corpus
\* record whose key one of the seed rows held
C26_Witness ==
    /\ last_run.ran /\ last_run.clear /\ last_run.completed
    /\ Len(last_run.before) = 2
    /\ last_run.stats.saved >= 1
    /\ last_run.after # <<>>
    /\ \E m \in DOMAIN last_run.after : \E k \in DOMAIN last_run.before :
          /\ last_run.after[m].text_original = last_run.before[k].text_original
          /\ last_run.after[m].language_original
                = last_run.before[k].language_original
          /\ last_run.after[m].source_url # "seed"

\* C27 (as stated): after a run without --clear that got through the loop
\* the store has grown by exactly the number of records counted as saved,
\* whatever errors other records raised
C27_SavedRowsArePresent ==
    (last_run.ran /\ ~last_run.clear /\ last_run.completed) =>
        Len(last_run.after) - Len(last_run.before) = last_run.stats.saved

\* C33: every row the last run inserted carries the language tag of a
\* corpus record with its text; no row is made of a record without a tag
C33_RowLanguageIsTheRecordsTag ==
    last_run.completed =>
        \A m \in DOMAIN InsertedRows :
            \E i \in TextRecords :
                LET q == fs[CORPUS_JSON].data[i] IN
                /\ RecordText(q) = InsertedRows[m].text_original
                /\ q.lang # MissingLang
                /\ q.lang = InsertedRows[m].language_original

Accepted(text) ==
    IF text \in KnownTexts THEN text \in KnownValid ELSE is_valid_quotation(text)

\* C13: every row an import inserted has a text that is_valid_quotation
\* accepts, and every corpus record whose stripped text it rejects is counted
\* as skipped.
C13_InsertedRowsAreValid ==
    last_run.ran =>
        /\ \A m \in DOMAIN InsertedRows :
                Accepted(InsertedRows[m].text_original)
        /\ last_run.completed =>
            LET qs == fs[CORPUS_JSON].data
                bad == {i \in TextRecords : ~Accepted(RecordText(qs[i]))}
            IN  last_run.stats.skipped >= Cardinality(bad)

\* a corpus with a text the validator rejects and a text it accepts was
\* imported: one was skipped, the other saved
C13_Witness ==
    /\ last_run.completed
    /\ last_run.stats.saved >= 1
    /\ last_run.stats.skipped >= 1
    /\ LET qs == fs[CORPUS_JSON].data IN
       \E i \in TextRecords :
            /\ Len(RecordText(qs[i])) >= MIN_LENGTH
            /\ ~Accepted(RecordText(qs[i]))
    /\ InsertedRows # <<>>


---------------------------------------------------------------------------
(* The Orchestrator: HarvestPipeline of harvest_pipeline.py.               *)

\* the harvester scripts of the working directory, in ascending name order,
\* and the file each one writes
ScriptNames ==
    <<"harvest_goodreads.py", "harvest_wikiquote_ru.py", "harvest_zenquotes.py">>
SlotOf ==
    [s \in Range(ScriptNames) |->
        IF s = "harvest_goodreads.py" THEN "goodreads.json"
        ELSE IF s = "harvest_wikiquote_ru.py" THEN "wikiquote_ru.json"
        ELSE "zenquotes.json"]

\* glob.glob(self.harvest_pattern), the isfile filter and scripts.sort()
\* (lines 97-100)
find_harvest_scripts_reversed(cwd) ==
    LET asc == SelectSeq(ScriptNames, LAMBDA s : s \in cwd)
    IN  [i \in 1..Len(asc) |-> asc[Len(asc) + 1 - i]]
find_harvest_scripts(cwd) == SelectSeq(ScriptNames, LAMBDA s : s \in cwd)

\* the signatures of lines 112-126, lower-cased as line 128 compares them
acceptable_errors ==
    {"not accessible", "connection refused", "connectionerror",
     "connection timeout", "max retries exceeded",
     "no connection could be made", "actively refused", "is down or blocked",
     "rate limit", "403", "404", "no quotes found", "site structure changed"}

\* an output is the set of the lower-cased phrases that occur in it
is_harvest_error_acceptable(error_output) ==
    \E err \in acceptable_errors : err \in error_output

\* extract_quotes_count: the number of the "Saved N quotes" line, -1 when
\* the output has no such line
extract_quotes_count(result) == result.saved

\* what the harvester wrote into its file when it collected something
Harvested(script) ==
    IF script = "harvest_goodreads.py"
    THEN <<Quote(T_time, "Seneca", "goodreads", "en")>>
    ELSE IF script = "harvest_wikiquote_ru.py"
    THEN <<Quote(T_tishe, NoAuthor, "wikiquote_ru", "ru")>>
    ELSE <<Quote(T_time_lc, NoAuthor, "zenquotes", "en"),
           Quote(T_deep, NoAuthor, "zenquotes", "en")>>

\* how subprocess.run(..., timeout=3600) can end for a harvester:
\*  - it exits with code 0, having saved its quotes; having found no quotes
\*    on a site it reached; or having logged the connection errors of a site
\*    it could not reach (the harvesters catch them and return);
\*  - it exits with a traceback, on a connection error or on another one;
\*  - it is killed at the time limit, with nothing or with some records
\*    collected in memory (the file is written only at the end);
\*  - it cannot be run.
\* `collected` counts the records the harvester held when it ended
NotRun == [end |-> "not_run"]
ChildResult(end, returncode, output, collected, wrote, unreachable) ==
    [end |-> end, returncode |-> returncode, output |-> output,
     saved |-> IF wrote THEN collected ELSE -1, collected |-> collected,
     wrote |-> wrote, unreachable |-> unreachable]
ChildResults(script) ==
    LET n == Len(Harvested(script)) IN
    { ChildResult("exit", 0, {"saved quotes"}, n, TRUE, FALSE),
      ChildResult("exit", 0, {"no quotes found"}, 0, FALSE, FALSE),
      ChildResult("exit", 0, {"error", "max retries exceeded", "connection refused"},
                  0, FALSE, TRUE),
      ChildResult("exit", 1, {"traceback", "max retries exceeded"}, 0, FALSE, TRUE),
      ChildResult("exit", 1, {"traceback", "modulenotfounderror"}, 0, FALSE, FALSE),
      ChildResult("timeout", -9, {}, 0, FALSE, FALSE),
      ChildResult("timeout", -9, {}, n, FALSE, FALSE),
      ChildResult("raise", -1, {}, 0, FALSE, FALSE) }

\* run_harvest_script (lines 184-257): success, message and quotes count
run_harvest_script(result) ==
    IF result.end = "timeout"
    THEN [success |-> FALSE, message |-> "Timeout", quotes_count |-> 0]
    ELSE IF result.end = "raise"
    THEN [success |-> FALSE, message |-> "Exception", quotes_count |-> 0]
    ELSE IF result.returncode = 0
    THEN [success |-> TRUE, message |-> "Success",
          quotes_count |-> extract_quotes_count(result)]
    ELSE IF is_harvest_error_acceptable(result.output)
    THEN [success |-> FALSE, message |-> "Acceptable error (site unavailable)",
          quotes_count |-> 0]
    ELSE [success |-> FALSE, message |-> "Error", quotes_count |-> 0]

count_script_drops_timeouts(h, r) ==
    IF r.success
    THEN [h EXCEPT !.success = @ + 1,
                   !.total_quotes = IF r.quotes_count >= 0
                                    THEN @ + r.quotes_count ELSE @]
    ELSE IF r.message = "Acceptable error (site unavailable)"
    THEN [h EXCEPT !.skipped = @ + 1]
    ELSE IF r.message = "Timeout" THEN h
    ELSE [h EXCEPT !.failed = @ + 1]
\* the bookkeeping of the harvest loop (lines 287-307)
count_script(h, r) ==
    IF r.success
    THEN [h EXCEPT !.success = @ + 1,
                   !.total_quotes = IF r.quotes_count >= 0
                                    THEN @ + r.quotes_count ELSE @]
    ELSE IF r.message = "Acceptable error (site unavailable)"
    THEN [h EXCEPT !.skipped = @ + 1]
    ELSE [h EXCEPT !.failed = @ + 1]

\* subprocess.run returns or raises only when the child is gone: it waits
\* for the exit, and at the time limit it kills the child and waits
alive_after_leaves_timed_out(running, script, result) ==
    IF result.end = "timeout" THEN running ELSE running \ {script}
alive_after(running, script, result) == running \ {script}

\* run() after the harvest stage (lines 424-430): a warning at most
after_harvest_abort(harvest_success) ==
    IF harvest_success THEN "merge" ELSE "return_false"
after_harvest(harvest_success) == "merge"

\* run() after the merge stage (lines 433-436)
after_merge_continue(merge_success) == "import"
after_merge(merge_success) ==
    IF merge_success THEN "import" ELSE "return_false"

\* run() after the import stage (lines 439-442)
after_import(import_success) ==
    IF import_success THEN "report" ELSE "return_false"

outcome(success) == IF success THEN "ok" ELSE "failed"

---------------------------------------------------------------------------
(* One run of the pipeline: python harvest_pipeline.py [flags].            *)

Flags ==
    [skip_harvest : BOOLEAN, skip_merge : BOOLEAN, skip_import : BOOLEAN,
     clear_db : BOOLEAN, stats_only : BOOLEAN]

\* what earlier runs left in the directory
OldBatch(f) == Batch(<<Quote(T_deep, NoAuthor, SourceOf[f], "en")>>)
PipeDirectories ==
    {[f \in FileNames |->
        IF f = CORPUS_JSON THEN d[1]
        ELSE IF f = "goodreads.json" THEN d[2] ELSE Absent] :
        d \in {<<Absent, Absent>>, <<Garbage, Absent>>,
               <<Absent, OldBatch("goodreads.json")>>,
               <<StaleCorpus, OldBatch("goodreads.json")>>}}

PipeStores ==
    { <<>>, <<Row(T_time, "en", "Seneca", "seed", <<"wisdom">>)>> }

PipeInit ==
    /\ cfg \in Flags
    /\ pc = "run"
    /\ cwd_scripts \in SUBSET Range(ScriptNames)
    /\ scripts = <<>>
    /\ script_i = 0
    /\ alive = {}
    /\ invoked = <<>>
    /\ pstats = ZeroPipeStats
    /\ stage = NoStageRan
    /\ fs \in PipeDirectories
    /\ store \in PipeStores
    /\ store0 = store
    /\ child_results = [s \in Range(ScriptNames) |-> NotRun]
    /\ db \in {"ok", "no_url"}
    /\ last_run = NoRun
    /\ prev_run = NoRun
    /\ MergeIdle
    /\ HarvIdle
    /\ ValidatorIdle
    /\ AphorizmIdle
    /\ DirectoryIdle
    /\ ImportersIdle

\* run() with --stats that falls through into the stages
RunStatsOnlyThenStages ==
    /\ pc = "run"
    /\ cfg.stats_only
    /\ pc' = "merge"
    /\ UNCHANGED <<dir_vars, conc_vars, val_vars, aph_vars, fs, store, merge_vars, import_vars, harv_vars, cfg, cwd_scripts,
                   scripts, script_i, alive, invoked, pstats, stage, store0, child_results>>

\* run() with --stats (lines 413-415): print_db_statistics only reads
RunStatsOnly ==
    /\ pc = "run"
    /\ cfg.stats_only
    /\ pc' = "return_true"
    /\ UNCHANGED <<dir_vars, conc_vars, val_vars, aph_vars, fs, store, merge_vars, import_vars, harv_vars, cfg, cwd_scripts,
                   scripts, script_i, alive, invoked, pstats, stage, store0, child_results>>

\* run_harvest_stage with --skip-harvest (lines 266-268)
HarvestSkipped ==
    /\ pc = "run"
    /\ ~cfg.stats_only
    /\ cfg.skip_harvest
    /\ stage' = [stage EXCEPT !.harvest = "skipped"]
    /\ pc' = after_harvest(TRUE)
    /\ UNCHANGED <<dir_vars, conc_vars, val_vars, aph_vars, fs, store, merge_vars, import_vars, harv_vars, cfg, cwd_scripts,
                   scripts, script_i, alive, invoked, pstats, store0, child_results>>

\* run_harvest_stage up to the loop (lines 274-282)
HarvestFindScripts ==
    /\ pc = "run"
    /\ ~cfg.stats_only
    /\ ~cfg.skip_harvest
    /\ LET found == find_harvest_scripts(cwd_scripts) IN
        /\ scripts' = found
        /\ pstats' = [pstats EXCEPT !.harvest.total = Len(found)]
        /\ IF found = <<>>
           THEN /\ stage' = [stage EXCEPT !.harvest = outcome(FALSE)]
                /\ pc' = after_harvest(FALSE)
                /\ UNCHANGED script_i
           ELSE /\ pc' = "harvest_loop"
                /\ script_i' = 1
                /\ UNCHANGED stage
    /\ UNCHANGED <<dir_vars, conc_vars, val_vars, aph_vars, fs, store, merge_vars, import_vars, harv_vars, cfg, cwd_scripts,
                   alive, invoked, store0, child_results>>

\* the loop takes the next script and subprocess.run starts it
\* (lines 284-285, 200-207)
HarvestStartScript ==
    /\ pc = "harvest_loop"
    /\ script_i <= Len(scripts)
    /\ alive' = alive \cup {scripts[script_i]}
    /\ invoked' = Append(invoked, scripts[script_i])
    /\ pc' = "subprocess_run"
    /\ UNCHANGED <<dir_vars, conc_vars, val_vars, aph_vars, fs, store, merge_vars, import_vars, harv_vars, cfg, cwd_scripts,
                   scripts, script_i, pstats, stage, store0, child_results>>

\* subprocess.run returns or raises, run_harvest_script classifies the
\* result and the loop counts it (lines 209-257, 285-310)
HarvestScriptEnds ==
    /\ pc = "subprocess_run"
    /\ LET script == scripts[script_i] IN
       \E result \in ChildResults(script) :
            /\ fs' = IF result.wrote
                     THEN [fs EXCEPT ![SlotOf[script]] = Batch(Harvested(script))]
                     ELSE fs
            /\ alive' = alive_after(alive, script, result)
            /\ child_results' = [child_results EXCEPT ![script] = result]
            /\ pstats' = [pstats EXCEPT
                            !.harvest = count_script(@, run_harvest_script(result))]
    /\ script_i' = script_i + 1
    /\ pc' = "harvest_loop"
    /\ UNCHANGED <<dir_vars, conc_vars, val_vars, aph_vars, store, merge_vars, import_vars, harv_vars, cfg, cwd_scripts, scripts,
                   invoked, stage, store0>>

\* the loop is through (lines 312-324)
HarvestEnds ==
    /\ pc = "harvest_loop"
    /\ script_i > Len(scripts)
    /\ LET harvest_success == pstats.harvest.success > 0 IN
        /\ stage' = [stage EXCEPT !.harvest = outcome(harvest_success)]
        /\ pc' = after_harvest(harvest_success)
    /\ UNCHANGED <<dir_vars, conc_vars, val_vars, aph_vars, fs, store, merge_vars, import_vars, harv_vars, cfg, cwd_scripts,
                   scripts, script_i, alive, invoked, pstats, store0, child_results>>

\* run_merge_stage with --skip-merge (lines 333-335)
MergeSkipped ==
    /\ pc = "merge"
    /\ cfg.skip_merge
    /\ stage' = [stage EXCEPT !.merge = "skipped"]
    /\ pc' = after_merge(TRUE)
    /\ UNCHANGED <<dir_vars, conc_vars, val_vars, aph_vars, fs, store, merge_vars, import_vars, harv_vars, cfg, cwd_scripts,
                   scripts, script_i, alive, invoked, pstats, store0, child_results>>

\* run_merge_stage when merge_quotes returns (lines 340-363)
MergeStageReturns ==
    /\ pc = "merge"
    /\ ~cfg.skip_merge
    /\ \E g \in glob_json(fs) :
        LET quotes == merge_quotes(g, fs, PIPELINE_EXCLUDE)
            merge_success == Len(quotes) > 0
        IN  /\ fs' = IF quotes # <<>>
                     THEN [fs EXCEPT ![CORPUS_JSON] = Batch(quotes)]
                     ELSE fs
            /\ pstats' = [pstats EXCEPT !.merge.output_quotes = Len(quotes)]
            /\ stage' = [stage EXCEPT !.merge = outcome(merge_success)]
            /\ pc' = after_merge(merge_success)
    /\ UNCHANGED <<dir_vars, conc_vars, val_vars, aph_vars, store, merge_vars, import_vars, harv_vars, cfg, cwd_scripts, scripts,
                   script_i, alive, invoked, store0, child_results>>

\* run_merge_stage when merge_quotes raises while it writes the corpus
\* (lines 365-367)
MergeStageRaises ==
    /\ pc = "merge"
    /\ ~cfg.skip_merge
    /\ \E g \in glob_json(fs) :
        /\ merge_quotes(g, fs, PIPELINE_EXCLUDE) # <<>>
        /\ fs' = [fs EXCEPT ![CORPUS_JSON] = Garbage]
    /\ stage' = [stage EXCEPT !.merge = outcome(FALSE)]
    /\ pc' = after_merge(FALSE)
    /\ UNCHANGED <<dir_vars, conc_vars, val_vars, aph_vars, store, merge_vars, import_vars, harv_vars, cfg, cwd_scripts, scripts,
                   script_i, alive, invoked, pstats, store0, child_results>>

\* run_import_stage with --skip-import that reports a failure
ImportSkippedFails ==
    /\ pc = "import"
    /\ cfg.skip_import
    /\ stage' = [stage EXCEPT !.import = "skipped"]
    /\ pc' = after_import(FALSE)
    /\ UNCHANGED <<dir_vars, conc_vars, val_vars, aph_vars, fs, store, merge_vars, import_vars, harv_vars, cfg, cwd_scripts,
                   scripts, script_i, alive, invoked, pstats, store0, child_results>>

\* run_import_stage with --skip-import (lines 376-378)
ImportSkipped ==
    /\ pc = "import"
    /\ cfg.skip_import
    /\ stage' = [stage EXCEPT !.import = "skipped"]
    /\ pc' = after_import(TRUE)
    /\ UNCHANGED <<dir_vars, conc_vars, val_vars, aph_vars, fs, store, merge_vars, import_vars, harv_vars, cfg, cwd_scripts,
                   scripts, script_i, alive, invoked, pstats, store0, child_results>>

\* run_import_stage finds no ALL_QUOTES.json (lines 384-389)
ImportNoCorpus ==
    /\ pc = "import"
    /\ ~cfg.skip_import
    /\ fs[CORPUS_JSON].kind = "absent"
    /\ stage' = [stage EXCEPT !.import = outcome(FALSE)]
    /\ pc' = after_import(FALSE)
    /\ UNCHANGED <<dir_vars, conc_vars, val_vars, aph_vars, fs, store, merge_vars, import_vars, harv_vars, cfg, cwd_scripts,
                   scripts, script_i, alive, invoked, pstats, store0, child_results>>

\* run_import_stage calls import_to_postgres (lines 391-400)
ImportStageRuns ==
    /\ pc = "import"
    /\ ~cfg.skip_import
    /\ fs[CORPUS_JSON].kind # "absent"
    /\ LET r == import_to_postgres(fs[CORPUS_JSON], cfg.clear_db, store, db)
           import_success == r.stats.saved > 0 \/ r.stats.skipped > 0
       IN  /\ store' = r.store
           /\ pstats' = [pstats EXCEPT !.import = r.stats]
           /\ stage' = [stage EXCEPT !.import = outcome(import_success)]
           /\ pc' = after_import(import_success)
    /\ UNCHANGED <<dir_vars, conc_vars, val_vars, aph_vars, fs, merge_vars, import_vars, harv_vars, cfg, cwd_scripts, scripts,
                   script_i, alive, invoked, store0, child_results>>

\* the final report (lines 445-493): get_db_statistics only reads
FinalReport ==
    /\ pc = "report"
    /\ pc' = "return_true"
    /\ UNCHANGED <<dir_vars, conc_vars, val_vars, aph_vars, fs, store, merge_vars, import_vars, harv_vars, cfg, cwd_scripts,
                   scripts, script_i, alive, invoked, pstats, stage, store0, child_results>>

PipeNext ==
    \/ RunStatsOnly
    \/ HarvestSkipped
    \/ HarvestFindScripts
    \/ HarvestStartScript
    \/ HarvestScriptEnds
    \/ HarvestEnds
    \/ MergeSkipped
    \/ MergeStageReturns
    \/ MergeStageRaises
    \/ ImportSkipped
    \/ ImportNoCorpus
    \/ ImportStageRuns
    \/ FinalReport

SpecPipeline == PipeInit /\ [][PipeNext]_vars

---------------------------------------------------------------------------
(* Claims about the pipeline run.                                          *)

\* run() has returned; main() exits with 0 exactly on True (line 561)
Returned == pc \in {"return_true", "return_false"}
ExitCode == IF pc = "return_true" THEN 0 ELSE 1

ScriptRank(s) == CHOOSE i \in DOMAIN ScriptNames : ScriptNames[i] = s

\* C4: when the harvest stage has run, it has invoked every script of the
\* directory exactly once, in ascending name order, whatever the outcomes
\* of the scripts were, and the run goes on to the merge stage even when no
\* script succeeded
C4_HarvestRunsEveryScriptOnce ==
    /\ stage.harvest \in {"ok", "failed"} =>
        /\ Len(invoked) = Cardinality(cwd_scripts)
        /\ Range(invoked) = cwd_scripts
        /\ \A i, j \in DOMAIN invoked :
                i < j => ScriptRank(invoked[i]) < ScriptRank(invoked[j])
    /\ (Returned /\ stage.harvest = "failed") => stage.merge # "pending"
    /\ pc = "harvest_loop" => Len(invoked) = script_i - 1

\* three scripts ended without a success (an unacceptable error, an
\* acceptable one, a timeout or an exception among them) and the merge stage
\* ran
C4_Witness ==
    /\ stage.harvest = "failed"
    /\ Len(invoked) = 3
    /\ pstats.harvest.failed >= 2
    /\ pstats.harvest.skipped = 1
    /\ stage.merge \in {"ok", "failed"}

\* C6: when the merge stage ran and failed, the run has returned False, the
\* import stage was not entered and the store holds the rows it held when
\* the run began
C6_MergeFailureAborts ==
    stage.merge = "failed" =>
        /\ pc = "return_false"
        /\ stage.import = "pending"
        /\ pstats.import = ZeroStats
        /\ store = store0

\* the merge stage failed in a run that was to clear and fill a store that
\* is reachable and not empty
C6_Witness ==
    /\ stage.merge = "failed"
    /\ ~cfg.skip_import
    /\ cfg.clear_db
    /\ db = "ok"
    /\ store0 # <<>>

\* C7: when the import stage ran on a corpus file that is missing or is no
\* JSON, the stage failed, the store holds the rows it held when the run
\* began, and the run has returned False
C7_UnreadableCorpusLeavesStore ==
    (stage.import # "pending" /\ ~cfg.skip_import
        /\ fs[CORPUS_JSON].kind # "list") =>
        /\ stage.import = "failed"
        /\ store = store0
        /\ pc = "return_false"

\* the import stage ran with --clear on an unreadable corpus file against a
\* reachable store that is not empty
C7_Witness ==
    /\ stage.import = "failed"
    /\ fs[CORPUS_JSON].kind = "garbage"
    /\ cfg.clear_db
    /\ db = "ok"
    /\ store0 # <<>>

\* C8: a run that has returned exits with a non-zero code exactly when its
\* merge stage or its import stage ran and failed
C8_FailureIffMergeOrImportFailed ==
    Returned =>
        (ExitCode # 0 <=> (stage.merge = "failed" \/ stage.import = "failed"))

\* a run in which no harvester succeeded exits with code 0
C8_Witness ==
    /\ Returned
    /\ ExitCode = 0
    /\ stage.harvest = "failed"
    /\ pstats.harvest.total = 3
    /\ stage.merge = "ok"
    /\ stage.import = "ok"

\* C14: in a run without DB_URL no stage runs: no harvester is invoked, the
\* merge stage writes no corpus, and the run returns failure from its start
C14_NoDbUrlFailsAtStartup ==
    db = "no_url" =>
        /\ invoked = <<>>
        /\ alive = {}
        /\ stage = NoStageRan
        /\ pc \in {"run", "return_false"}

\* the scripts whose subprocess has ended in a way P
Ended(P(_)) ==
    {s \in Range(ScriptNames) :
        child_results[s] # NotRun /\ P(child_results[s])}

\* C15: every harvester that ended because its source was unreachable is
\* counted as skipped, and none of them is counted as a success
C15_UnreachableCountedSkipped ==
    LET unreachable(r) == r.unreachable
        reached(r) == ~r.unreachable
    IN  /\ pstats.harvest.skipped >= Cardinality(Ended(unreachable))
        /\ pstats.harvest.success <= Cardinality(Ended(reached))

\* C16: a harvester killed at the time limit is counted as skipped when it
\* had collected nothing and as a success when it had collected a record;
\* none is counted as failed
C16_TimeoutNeverPlainFailure ==
    LET timed_out_empty(r) == r.end = "timeout" /\ r.collected = 0
        timed_out_partial(r) == r.end = "timeout" /\ r.collected > 0
        not_timed_out(r) == r.end # "timeout"
    IN  /\ pstats.harvest.failed <= Cardinality(Ended(not_timed_out))
        /\ pstats.harvest.skipped >= Cardinality(Ended(timed_out_empty))
        /\ pstats.harvest.success >= Cardinality(Ended(timed_out_partial))

\* C17: the records a harvester had collected when it was killed at the time
\* limit are in its output file from then on, where the merge stage of the
\* run reads them
C17_TimeoutKeepsCollected ==
    \A s \in Range(ScriptNames) :
        (child_results[s] # NotRun /\ child_results[s].end = "timeout") =>
            /\ child_results[s].collected > 0 => fs[SlotOf[s]].kind = "list"
            /\ \A k \in 1..child_results[s].collected :
                    \E m \in DOMAIN fs[SlotOf[s]].data :
                        fs[SlotOf[s]].data[m] = Harvested(s)[k]

---------------------------------------------------------------------------
(* Claims about the flags of the run.                                      *)

\* C21: in a run with --stats no step starts a harvester, writes a file,
\* changes the store or enters a stage, and the step the run takes returns
\* True
C21_StatsOnlyRunsNoStage ==
    [][cfg.stats_only =>
          /\ fs' = fs
          /\ store' = store
          /\ alive' = alive
          /\ invoked' = invoked
          /\ stage' = stage
          /\ pstats' = pstats
          /\ pc' = "return_true"]_vars

\* a run with --stats alone has returned in a directory that holds
\* harvesters and an unreadable corpus file, over a store that is not empty
C21_Witness ==
    /\ cfg.stats_only
    /\ ~cfg.skip_harvest /\ ~cfg.skip_merge /\ ~cfg.skip_import
    /\ pc = "return_true"
    /\ cwd_scripts # {}
    /\ store # <<>>
    /\ store = store0
    /\ fs[CORPUS_JSON].kind = "garbage"
    /\ invoked = <<>>
    /\ stage = NoStageRan

\* what the skip flags promise in every state of a run without --stats: a
\* skipped stage has done nothing and is recorded as skipped, the stages
\* are entered in the order Harvest, Merge, Import, and a run that has
\* returned has run every stage that was not skipped (the Import stage
\* unless the Merge stage failed) and has returned True when no stage failed
SkipFlagsHonoured ==
    ~cfg.stats_only =>
        /\ cfg.skip_harvest =>
              invoked = <<>> /\ alive = {} /\ stage.harvest \in {"pending", "skipped"}
        /\ cfg.skip_merge => stage.merge \in {"pending", "skipped"}
        /\ cfg.skip_import =>
              store = store0 /\ stage.import \in {"pending", "skipped"}
        /\ stage.merge # "pending" => stage.harvest # "pending"
        /\ stage.import # "pending" => stage.merge # "pending"
        /\ Returned =>
              /\ ~cfg.skip_harvest => stage.harvest \in {"ok", "failed"}
              /\ ~cfg.skip_merge => stage.merge \in {"ok", "failed"}
              /\ (~cfg.skip_import /\ stage.merge # "failed") =>
                    stage.import \in {"ok", "failed"}
              /\ (stage.merge # "failed" /\ stage.import # "failed") =>
                    pc = "return_true"

\* C22: the skip flags are honoured in every state, no step of a run with
\* --skip-merge writes the corpus file, and no step of a run with
\* --skip-harvest writes a harvester's slot
C22_SkippedStagesDoNothing ==
    /\ []SkipFlagsHonoured
    /\ [][/\ cfg.skip_merge => fs'[CORPUS_JSON] = fs[CORPUS_JSON]
          /\ cfg.skip_harvest =>
                \A f \in Range(SlotNames) : fs'[f] = fs[f]]_vars

\* a run with --skip-harvest and --skip-import has returned True after its
\* merge stage wrote the corpus, in a directory that holds harvesters
C22_Witness ==
    /\ ~cfg.stats_only
    /\ cfg.skip_harvest /\ ~cfg.skip_merge /\ cfg.skip_import
    /\ cwd_scripts # {}
    /\ stage = [harvest |-> "skipped", merge |-> "ok", import |-> "skipped"]
    /\ fs[CORPUS_JSON] = Batch(<<Quote(T_deep, NoAuthor, "goodreads", "en")>>)
    /\ pc = "return_true"

\* C23 (as stated): a run without --stats returns only from the final
\* report, so the report is emitted also when the merge or the import stage
\* failed
C23_EveryRunEndsWithReport ==
    [][(~cfg.stats_only /\ ~Returned /\ Returned') => pc = "report"]_vars

---------------------------------------------------------------------------
(* Claims about the counters of the harvest stage.                         *)

\* the scripts whose subprocess ended and was classified as `kind`
Classified(kind) ==
    { s \in DOMAIN child_results :
        /\ child_results[s] # NotRun
        /\ LET r == run_harvest_script(child_results[s]) IN
           kind = IF r.success THEN "success"
                  ELSE IF r.message = "Acceptable error (site unavailable)"
                  THEN "skipped" ELSE "failed" }

\* C36: when the harvest stage has run, success + skipped + failed equals
\* total, total is the number of scripts found, and each counter is the
\* number of scripts that ended that way; while the loop runs the three
\* counters add up to the number of scripts that have ended
C36_HarvestAccountingExact ==
    LET h == pstats.harvest IN
    /\ stage.harvest \in {"ok", "failed"} =>
        /\ h.total = Len(scripts)
        /\ h.total = Cardinality(cwd_scripts)
        /\ h.success + h.skipped + h.failed = h.total
    /\ pc = "harvest_loop" => h.success + h.skipped + h.failed = script_i - 1
    /\ pc \notin {"idle", "run"} /\ ~cfg.skip_harvest /\ ~cfg.stats_only =>
        /\ h.success = Cardinality(Classified("success"))
        /\ h.skipped = Cardinality(Classified("skipped"))
        /\ h.failed = Cardinality(Classified("failed"))

\* the stage ended after three scripts: one succeeded, one was skipped for
\* an acceptable error and one timed out
C36_Witness ==
    /\ stage.harvest = "ok"
    /\ pstats.harvest.total = 3
    /\ pstats.harvest.success = 1
    /\ pstats.harvest.skipped = 1
    /\ pstats.harvest.failed = 1
    /\ \E s \in DOMAIN child_results : child_results[s].end = "timeout"

---------------------------------------------------------------------------
(* find_harvest_scripts of harvest_pipeline.py and the loop that starts    *)
(* what it found, over the entries of a directory.  A name is the sequence *)
(* of its characters.                                                      *)

N_pipeline ==
    <<"h", "a", "r", "v", "e", "s", "t", "_", "p", "i", "p", "e", "l", "i",
    "n", "e", ".", "p", "y">>
N_zenquotes ==
    <<"h", "a", "r", "v", "e", "s", "t", "_", "z", "e", "n", "q", "u", "o",
    "t", "e", "s", ".", "p", "y">>
N_goodreads ==
    <<"h", "a", "r", "v", "e", "s", "t", "_", "g", "o", "o", "d", "r", "e",
    "a", "d", "s", ".", "p", "y">>
N_merge ==
    <<"m", "e", "r", "g", "e", "_", "q", "u", "o", "t", "e", "s", ".", "p",
    "y">>
N_notes ==
    <<"h", "a", "r", "v", "e", "s", "t", "_", "n", "o", "t", "e", "s", ".",
    "t", "x", "t">>
N_old ==
    <<"h", "a", "r", "v", "e", "s", "t", "_", "o", "l", "d", ".", "p", "y">>

\* the default of harvest_pattern (line 49): harvest_*.py
PATTERN_PREFIX == <<"h", "a", "r", "v", "e", "s", "t", "_">>
PATTERN_SUFFIX == <<".", "p", "y">>

\* the script of the orchestrator itself
OWN_SCRIPT == N_pipeline

File(name) == [name |-> name, isfile |-> TRUE]
Dir(name) == [name |-> name, isfile |-> FALSE]

\* what the working directory can hold: the orchestrator, two harvesters,
\* the merger, a text file and a directory whose name ends in .py
DirectoryEntries ==
    {File(N_pipeline), File(N_zenquotes), File(N_goodreads), File(N_merge),
     File(N_notes), Dir(N_old)}

\* fnmatch of a name against prefix*suffix
glob_match(name) ==
    /\ Len(name) >= Len(PATTERN_PREFIX) + Len(PATTERN_SUFFIX)
    /\ SubSeq(name, 1, Len(PATTERN_PREFIX)) = PATTERN_PREFIX
    /\ SubSeq(name, Len(name) - Len(PATTERN_SUFFIX) + 1, Len(name)) = PATTERN_SUFFIX

\* the order of the characters of the names in str comparison
CharOrder == <<".", "_">> \o LowerLatin
ord(c) == CHOOSE i \in DOMAIN CharOrder : CharOrder[i] = c

\* a < b for str
RECURSIVE str_less(_, _)
str_less(a, b) ==
    IF a = <<>> THEN b # <<>>
    ELSE IF b = <<>> THEN FALSE
    ELSE IF Head(a) = Head(b) THEN str_less(Tail(a), Tail(b))
    ELSE ord(Head(a)) < ord(Head(b))

\* list.sort() of a list of distinct names
RECURSIVE sorted(_)
sorted(S) ==
    IF S = {} THEN <<>>
    ELSE LET least == CHOOSE x \in S : \A y \in S \ {x} : str_less(x, y)
         IN  <<least>> \o sorted(S \ {least})

\* glob.glob(self.harvest_pattern), the isfile filter and scripts.sort()
\* (lines 97-100), from the entries of the directory
find_scripts(entries) ==
    sorted({e.name : e \in {x \in entries : glob_match(x.name) /\ x.isfile}})

ScriptsInit ==
    /\ directory \in SUBSET DirectoryEntries
    /\ pc = "run"
    /\ scripts = <<>>
    /\ script_i = 0
    /\ invoked = <<>>
    /\ alive = {}
    /\ cfg = DefaultFlags
    /\ cwd_scripts = {}
    /\ pstats = ZeroPipeStats
    /\ stage = NoStageRan
    /\ store0 = <<>>
    /\ child_results = <<>>
    /\ fs = [f \in FileNames |-> Absent]
    /\ store = <<>>
    /\ MergeIdle
    /\ ImportIdle
    /\ HarvIdle
    /\ ValidatorIdle
    /\ AphorizmIdle
    /\ ImportersIdle

\* scripts = self.find_harvest_scripts() (lines 274-281)
ListScripts ==
    /\ pc = "run"
    /\ scripts' = find_scripts(directory)
    /\ pstats' = [pstats EXCEPT !.harvest.total = Len(scripts')]
    /\ script_i' = 1
    /\ pc' = IF scripts' = <<>> THEN "return_false" ELSE "harvest_loop"
    /\ UNCHANGED <<dir_vars, conc_vars, val_vars, aph_vars, fs, store,
                   merge_vars, import_vars, harv_vars, cfg, cwd_scripts, alive,
                   invoked, stage, store0, child_results>>

\* the loop hands the next script to subprocess.run([sys.executable,
\* script_path]) (lines 284-285, 200-207)
StartScript ==
    /\ pc = "harvest_loop"
    /\ script_i <= Len(scripts)
    /\ invoked' = Append(invoked, scripts[script_i])
    /\ script_i' = script_i + 1
    /\ UNCHANGED <<dir_vars, conc_vars, val_vars, aph_vars, fs, store,
                   merge_vars, import_vars, harv_vars, cfg, pc, cwd_scripts,
                   scripts, alive, pstats, stage, store0, child_results>>

ScriptsNext == ListScripts \/ StartScript

SpecScripts == ScriptsInit /\ [][ScriptsNext]_vars

---------------------------------------------------------------------------
(* Claims about the scripts of the harvest stage.                          *)

\* C37: the orchestrator's own script is never in the list of scripts of
\* the harvest stage and is never started by it
C37_OwnScriptNeverRun ==
    /\ OWN_SCRIPT \notin Range(scripts)
    /\ OWN_SCRIPT \notin Range(invoked)

---------------------------------------------------------------------------
(* A harvester with an availability probe, run on its own:                 *)
(* harvest_anecdot_ru of load/harvest_anecdot_ru.py and                    *)
(* harvest_citaty_info of harvest_citaty_info.py.                          *)

ANECDOT == "harvest_anecdot_ru.py"
CITATY_INFO == "harvest_citaty_info.py"

\* [BASE_URL] + ALTERNATIVE_URLS of harvest_anecdot_ru.py (lines 21-27, 161)
AnecdotUrls ==
    <<"https://anecdot.ru/aphorizm", "http://anecdot.ru/aphorizm",
      "https://www.anecdot.ru/aphorizm", "http://www.anecdot.ru/aphorizm">>
\* BASE_URL of harvest_citaty_info.py (line 24)
CitatyInfoUrls == <<"https://citaty.info">>

ProbeUrls(h) == IF h = ANECDOT THEN AnecdotUrls ELSE CitatyInfoUrls

\* the url_patterns of a page (anecdot 196-200, citaty.info 185-189)
URL_PATTERNS == 3

\* the pages the page loop is asked for
MaxPages == 2

\* what an endpoint answers to the probe: a status code, or requests.get
\* raises
ProbeAnswers == {"200", "503", "refused"}

\* what a page request ends in: elements were found, the page has none, it
\* is a 404, requests raises a RequestException, the parser raises
PageAnswers == {"elements", "no_elements", "404", "request_error", "parse_error"}

\* the records one page adds to the list
PageYields(h) ==
    { <<>>,
      <<Quote(T_tishe, NoAuthor,
              IF h = ANECDOT THEN "anecdot_ru" ELSE "citaty.info", "ru")>> }

ProbeRequest(url) ==
    [phase |-> "probe", base |-> url, pattern |-> 0, page |-> 0]
PageRequest(url, k, n) ==
    [phase |-> "page", base |-> url, pattern |-> k, page |-> n]

ReturnedList(qs) == [kind |-> "list", value |-> qs]

\* after the probe: the page loop, or the branch of `if not site_available`
\* (anecdot 175, citaty.info 166)
after_probe_pages_anyway(available) == "pages"
after_probe(available) == IF available THEN "pages" ELSE "unavailable"

HarvInit ==
    /\ harvester \in {ANECDOT, CITATY_INFO}
    /\ net \in [Range(ProbeUrls(harvester)) -> ProbeAnswers]
    /\ hpc = "probe"
    /\ probe_i = 1
    /\ site_available = FALSE
    /\ working_base_url = ProbeUrls(harvester)[1]
    /\ page = 1
    /\ pattern_i = 1
    /\ requests = <<>>
    /\ harvested = <<>>
    /\ returned = NotReturned
    /\ output_file \in {Absent, Batch(<<Quote(T_tishe, NoAuthor, "old", "ru")>>)}
    /\ fs = [f \in FileNames |-> Absent]
    /\ MergeIdle
    /\ ImportIdle
    /\ PipeIdle
    /\ ValidatorIdle
    /\ AphorizmIdle
    /\ DirectoryIdle
    /\ ImportersIdle

\* one turn of the probe loop (anecdot 161-173, citaty.info 156-164)
ProbeEndpoint ==
    /\ hpc = "probe"
    /\ probe_i <= Len(ProbeUrls(harvester))
    /\ LET test_url == ProbeUrls(harvester)[probe_i] IN
        /\ requests' = Append(requests, ProbeRequest(test_url))
        /\ IF net[test_url] = "200"
           THEN /\ site_available' = TRUE
                /\ working_base_url' = test_url
                /\ hpc' = after_probe(TRUE)
                /\ UNCHANGED probe_i
           ELSE /\ probe_i' = probe_i + 1
                /\ UNCHANGED <<site_available, working_base_url, hpc>>
    /\ UNCHANGED <<dir_vars, conc_vars, val_vars, aph_vars, fs, store, merge_vars, import_vars, pipe_vars, harvester, net,
                   page, pattern_i, harvested, returned, output_file>>

\* the probe loop ran out of endpoints
ProbeExhausted ==
    /\ hpc = "probe"
    /\ probe_i > Len(ProbeUrls(harvester))
    /\ hpc' = after_probe(site_available)
    /\ UNCHANGED <<dir_vars, conc_vars, val_vars, aph_vars, fs, store, merge_vars, import_vars, pipe_vars, harvester, net,
                   probe_i, site_available, working_base_url, page, pattern_i,
                   requests, harvested, returned, output_file>>

\* the site is not accessible: an empty file is saved and [] is returned
\* (anecdot 175-189, citaty.info 166-178)
SiteUnavailable ==
    /\ hpc = "unavailable"
    /\ output_file' = Batch(<<>>)
    /\ returned' = ReturnedList(<<>>)
    /\ hpc' = "done"
    /\ UNCHANGED <<dir_vars, conc_vars, val_vars, aph_vars, fs, store, merge_vars, import_vars, pipe_vars, harvester, net,
                   probe_i, site_available, working_base_url, page, pattern_i,
                   requests, harvested>>

\* one URL pattern of a page is requested (anecdot 202-245, citaty.info
\* 191-220); the anecdot harvester repeats a request that failed the SSL
\* verification
RequestPage ==
    /\ hpc = "pages"
    /\ page <= MaxPages
    /\ pattern_i <= URL_PATTERNS
    /\ LET req == PageRequest(working_base_url, pattern_i, page) IN
       \E ssl_error \in IF harvester = ANECDOT THEN BOOLEAN ELSE {FALSE} :
       \E answer \in PageAnswers :
       \E yield \in IF answer = "elements" THEN PageYields(harvester) ELSE {<<>>} :
            /\ requests' = IF ssl_error THEN requests \o <<req, req>>
                           ELSE Append(requests, req)
            /\ harvested' = harvested \o yield
            /\ page' = IF answer \in {"elements", "parse_error"}
                       THEN page + 1 ELSE page
            /\ pattern_i' = IF answer \in {"elements", "parse_error"}
                            THEN 1 ELSE pattern_i + 1
    /\ UNCHANGED <<dir_vars, conc_vars, val_vars, aph_vars, fs, store, merge_vars, import_vars, pipe_vars, harvester, net,
                   hpc, probe_i, site_available, working_base_url, returned,
                   output_file>>

\* no pattern of the page gave elements: the page loop is left (anecdot
\* 247-255, citaty.info 222-224), or the last page is through
LeavePageLoop ==
    /\ hpc = "pages"
    /\ page > MaxPages \/ pattern_i > URL_PATTERNS
    /\ hpc' = "save"
    /\ UNCHANGED <<dir_vars, conc_vars, val_vars, aph_vars, fs, store, merge_vars, import_vars, pipe_vars, harvester, net,
                   probe_i, site_available, working_base_url, page, pattern_i,
                   requests, harvested, returned, output_file>>

\* the list is saved and returned: anecdot writes only a list that is not
\* empty (291-296), citaty.info writes always (253-257)
SaveAndReturn ==
    /\ hpc = "save"
    /\ output_file' = IF harvester = ANECDOT /\ harvested = <<>>
                      THEN output_file ELSE Batch(harvested)
    /\ returned' = ReturnedList(harvested)
    /\ hpc' = "done"
    /\ UNCHANGED <<dir_vars, conc_vars, val_vars, aph_vars, fs, store, merge_vars, import_vars, pipe_vars, harvester, net,
                   probe_i, site_available, working_base_url, page, pattern_i,
                   requests, harvested>>

HarvNext ==
    \/ ProbeEndpoint
    \/ ProbeExhausted
    \/ SiteUnavailable
    \/ RequestPage
    \/ LeavePageLoop
    \/ SaveAndReturn

SpecHarvester == HarvInit /\ [][HarvNext]_vars

---------------------------------------------------------------------------
(* Claims about the availability probe.                                    *)

NoWorkingEndpoint == \A u \in DOMAIN net : net[u] # "200"

---------------------------------------------------------------------------
(* Claims about the page loop.                                             *)

\* every URL pattern of page n was requested
AllPatternsRequested(n) ==
    \A k \in 1..URL_PATTERNS :
        \E i \in DOMAIN requests :
            requests[i] = PageRequest(working_base_url, k, n)

\* the page loop was left by `break` while pages were still to be asked for
StoppedEarly ==
    /\ hpc \in {"save", "done"}
    /\ site_available
    /\ page <= MaxPages

\* C31: a harvester that left its page loop before the last page did so on
\* the second of two consecutive pages none of whose URL patterns gave a
\* quote element; one such page alone does not end the harvest
C31_EarlyStopAfterTwoFailedPages ==
    StoppedEarly =>
        /\ page >= 2
        /\ AllPatternsRequested(page - 1)
        /\ AllPatternsRequested(page)
        /\ pattern_i > URL_PATTERNS

---------------------------------------------------------------------------
(* harvest_aphorizm_ru of load/harvest_aphorizm_ru.py, run on its own.  It *)
(* probes every endpoint of its list, keeps all that answered 200 in       *)
(* working_urls, collects from each of them, and then pages through the    *)
(* first of them.  In this specification no endpoint fails the             *)
(* verification of its certificate.                                        *)

APHORIZM == "harvest_aphorizm_ru.py"

\* base_urls + alternative_base_urls (lines 152-162, 169)
AphorizmUrls ==
    <<"https://aphorizm.ru/", "https://aphorizm.ru/random/",
      "https://aphorizm.ru/top/", "http://aphorizm.ru/",
      "https://www.aphorizm.ru/">>

\* `len(quotes) >= max_pages * 20` (lines 205, 296)
QUOTES_PER_PAGE == 20

BaseRequest(url) ==
    [phase |-> "base", base |-> url, pattern |-> 0, page |-> 0]

\* what the request of a base page ends in
BaseAnswers == {"elements", "request_error"}

AphorizmYields ==
    {<<>>, <<Quote(T_tishe, NoAuthor, "aphorizm_ru", "ru")>>}

AphorizmInit ==
    /\ harvester = APHORIZM
    /\ net \in [Range(AphorizmUrls) -> ProbeAnswers]
    /\ hpc = "probe"
    /\ probe_i = 1
    /\ site_available = FALSE
    /\ working_urls = <<>>
    /\ base_i = 1
    /\ DirectoryIdle
    /\ ImportersIdle
    /\ working_base_url = AphorizmUrls[1]
    /\ page = 1
    /\ pattern_i = 1
    /\ requests = <<>>
    /\ harvested = <<>>
    /\ returned = NotReturned
    /\ output_file = Absent
    /\ fs = [f \in FileNames |-> Absent]
    /\ store = <<>>
    /\ MergeIdle
    /\ ImportIdle
    /\ PipeIdle
    /\ ValidatorIdle

\* one turn of the probe loop, which has no break (lines 169-179)
AphorizmProbe ==
    /\ hpc = "probe"
    /\ probe_i <= Len(AphorizmUrls)
    /\ LET test_url == AphorizmUrls[probe_i] IN
        /\ requests' = Append(requests, ProbeRequest(test_url))
        /\ site_available' = (site_available \/ net[test_url] = "200")
        /\ working_urls' = IF net[test_url] = "200"
                              /\ test_url \notin Range(working_urls)
                           THEN Append(working_urls, test_url)
                           ELSE working_urls
        /\ probe_i' = probe_i + 1
    /\ UNCHANGED <<dir_vars, conc_vars, val_vars, fs, store, merge_vars, import_vars, pipe_vars,
                   harvester, net, hpc, base_i, working_base_url, page,
                   pattern_i, harvested, returned, output_file>>

\* after the probe loop: `if not site_available` (181), else
\* `base_urls = working_urls` (198)
AphorizmProbeEnds ==
    /\ hpc = "probe"
    /\ probe_i > Len(AphorizmUrls)
    /\ hpc' = IF site_available THEN "bases" ELSE "unavailable"
    /\ UNCHANGED <<dir_vars, conc_vars, val_vars, aph_vars, fs, store, merge_vars, import_vars,
                   pipe_vars, harvester, net, probe_i, site_available,
                   working_base_url, page, pattern_i, requests, harvested,
                   returned, output_file>>

\* one turn of the loop over base_urls (lines 203-287)
AphorizmBasePage ==
    /\ hpc = "bases"
    /\ base_i <= Len(working_urls)
    /\ Len(harvested) < MaxPages * QUOTES_PER_PAGE
    /\ \E answer \in BaseAnswers :
       \E yield \in IF answer = "elements" THEN AphorizmYields ELSE {<<>>} :
            /\ requests' = Append(requests, BaseRequest(working_urls[base_i]))
            /\ harvested' = harvested \o yield
    /\ base_i' = base_i + 1
    /\ UNCHANGED <<dir_vars, conc_vars, val_vars, fs, store, merge_vars, import_vars, pipe_vars,
                   harvester, net, hpc, probe_i, site_available, working_urls,
                   working_base_url, page, pattern_i, returned, output_file>>

\* the loop over base_urls ends; the page loop takes working_urls[0] as its
\* base (line 301)
AphorizmBasesEnd ==
    /\ hpc = "bases"
    /\ \/ base_i > Len(working_urls)
       \/ Len(harvested) >= MaxPages * QUOTES_PER_PAGE
    /\ hpc' = "pages"
    /\ working_base_url' = working_urls[1]
    /\ UNCHANGED <<dir_vars, conc_vars, val_vars, aph_vars, fs, store, merge_vars, import_vars,
                   pipe_vars, harvester, net, probe_i, site_available, page,
                   pattern_i, requests, harvested, returned, output_file>>

\* one URL pattern of a page is requested (lines 294-372)
AphorizmPage ==
    /\ hpc = "pages"
    /\ page <= MaxPages
    /\ pattern_i <= URL_PATTERNS
    /\ Len(harvested) < MaxPages * QUOTES_PER_PAGE
    /\ \E answer \in PageAnswers :
       \E yield \in IF answer = "elements" THEN AphorizmYields ELSE {<<>>} :
            /\ requests' = Append(requests,
                                  PageRequest(working_base_url, pattern_i, page))
            /\ harvested' = harvested \o yield
            /\ page' = IF answer \in {"elements", "parse_error"}
                       THEN page + 1 ELSE page
            /\ pattern_i' = IF answer \in {"elements", "parse_error"}
                            THEN 1 ELSE pattern_i + 1
    /\ UNCHANGED <<dir_vars, conc_vars, val_vars, aph_vars, fs, store, merge_vars, import_vars,
                   pipe_vars, harvester, net, hpc, probe_i, site_available,
                   working_base_url, returned, output_file>>

\* the page loop is left (lines 296-297, 343-345)
AphorizmLeavePageLoop ==
    /\ hpc = "pages"
    /\ \/ page > MaxPages
       \/ pattern_i > URL_PATTERNS
       \/ Len(harvested) >= MaxPages * QUOTES_PER_PAGE
    /\ hpc' = "save"
    /\ UNCHANGED <<dir_vars, conc_vars, val_vars, aph_vars, fs, store, merge_vars, import_vars,
                   pipe_vars, harvester, net, probe_i, site_available,
                   working_base_url, page, pattern_i, requests, harvested,
                   returned, output_file>>

\* the list is written when it is not empty, and returned (lines 377-383)
AphorizmSave ==
    /\ hpc = "save"
    /\ output_file' = IF harvested = <<>> THEN output_file ELSE Batch(harvested)
    /\ returned' = ReturnedList(harvested)
    /\ hpc' = "done"
    /\ UNCHANGED <<dir_vars, conc_vars, val_vars, aph_vars, fs, store, merge_vars, import_vars,
                   pipe_vars, harvester, net, probe_i, site_available,
                   working_base_url, page, pattern_i, requests, harvested>>

AphorizmNext ==
    \/ AphorizmProbe
    \/ AphorizmProbeEnds
    \/ SiteUnavailable
    \/ AphorizmBasePage
    \/ AphorizmBasesEnd
    \/ AphorizmPage
    \/ AphorizmLeavePageLoop
    \/ AphorizmSave

SpecAphorizm == AphorizmInit /\ [][AphorizmNext]_vars

---------------------------------------------------------------------------
(* Claims about the probe of harvest_aphorizm_ru.                          *)

\* the endpoints of the list that answer the probe with status 200
Answering(urls) == {i \in DOMAIN urls : net[urls[i]] = "200"}

\* the first of them in list order
FirstAnswering(urls) == urls[SetMin(Answering(urls))]

\* C32: the probe asks the endpoints in list order; every request made
\* after the probe goes to the first endpoint of the list that answered
\* with status 200, never to one listed after it; and when no endpoint
\* answered 200 no request follows the probe
C32_ProbeSelectsFirstSuccess ==
    /\ \A i \in DOMAIN requests :
        requests[i].phase = "probe" =>
            i <= Len(AphorizmUrls) /\ requests[i] = ProbeRequest(AphorizmUrls[i])
    /\ \A i \in DOMAIN requests :
        requests[i].phase # "probe" =>
            /\ Answering(AphorizmUrls) # {}
            /\ requests[i].base = FirstAnswering(AphorizmUrls)

---------------------------------------------------------------------------
(* The request loops of the harvesters without a probe, run on their own:  *)
(* harvest_zenquotes, harvest_wikiquote_ru, harvest_goodreads and          *)
(* load/harvest_quotable.  `requests` is the log of what the harvester     *)
(* did on the network and on the clock: every requests.get with what it    *)
(* ended in, and every time.sleep with its duration in milliseconds.       *)
(* `page` is the unit of work of the loop (the request number, the author, *)
(* the page), `pattern_i` the attempt of harvest_goodreads.                *)

ZENQUOTES == "harvest_zenquotes.py"
WIKIQUOTE_RU == "harvest_wikiquote_ru.py"
GOODREADS == "harvest_goodreads.py"
QUOTABLE == "harvest_quotable.py"

\* ZEN_URL, BASE_URL, BASE_URL and QUOTABLE_URL of the four modules
LoopUrl(h) ==
    CASE h = ZENQUOTES -> "https://zenquotes.io/api/random"
      [] h = WIKIQUOTE_RU -> "https://ru.wikiquote.org/wiki"
      [] h = GOODREADS -> "https://www.goodreads.com/quotes"
      [] OTHER -> "https://api.quotable.io/quotes"

\* the units of work a run is asked for: max_quotes of harvest_zenquotes,
\* max_pages of harvest_goodreads, len(authors) of harvest_wikiquote_ru,
\* the pages the Quotable API has
MaxUnits == 2

\* the head of the default author list (the names are Cyrillic in the source)
Authors == <<"Lev Tolstoy", "Fyodor Dostoevsky", "Anton Chekhov", "Alexander Pushkin">>

Get(u, answer) == [phase |-> "get", unit |-> u, answer |-> answer, ms |-> 0]
Sleep(u, ms) == [phase |-> "sleep", unit |-> u, answer |-> "none", ms |-> ms]

\* the first get of a turn fails the SSL verification and is repeated with
\* verify=False at once
ssl_retry(u, ssl_error) == IF ssl_error THEN <<Get(u, "ssl_error")>> ELSE <<>>

\* "Vsyo prikhodit vovremya dlya togo, kto umeet zhdat'." in Cyrillic
T_wait ==
    <<"U+0412", "U+0441", "U+0451", " ", "U+043F", "U+0440", "U+0438",
      "U+0445", "U+043E", "U+0434", "U+0438", "U+0442", " ", "U+0432",
      "U+043E", "U+0432", "U+0440", "U+0435", "U+043C", "U+044F", " ",
      "U+0434", "U+043B", "U+044F", " ", "U+0442", "U+043E", "U+0433",
      "U+043E", ",", " ", "U+043A", "U+0442", "U+043E", " ", "U+0443",
      "U+043C", "U+0435", "U+0435", "U+0442", " ", "U+0436", "U+0434",
      "U+0430", "U+0442", "U+044C", ".">>

LoopInit ==
    /\ harvester \in {ZENQUOTES, WIKIQUOTE_RU, GOODREADS, QUOTABLE}
    /\ net = <<>>
    /\ hpc = "pages"
    /\ probe_i = 0
    /\ site_available = FALSE
    /\ working_base_url = LoopUrl(harvester)
    /\ page = 1
    /\ pattern_i = 0
    /\ requests = <<>>
    /\ harvested = <<>>
    /\ returned = NotReturned
    /\ output_file \in {Absent, Batch(<<Quote(T_time, NoAuthor, "old", "en")>>)}
    /\ fs = [f \in FileNames |-> Absent]
    /\ MergeIdle
    /\ ImportIdle
    /\ PipeIdle
    /\ ValidatorIdle
    /\ AphorizmIdle
    /\ DirectoryIdle
    /\ ImportersIdle

---------------------------------------------------------------------------
(* harvest_zenquotes (harvest_zenquotes.py 103-190).                       *)

\* what the API answers with: data[0] with its fields q and a
ZenQuotes ==
    { [q |-> T_time, a |-> "Seneca"],
      [q |-> T_deep, a |-> ""],
      [q |-> T_short, a |-> "Seneca"] }

\* what a request ends in
ZenAnswers ==
    {[kind |-> k, data |-> <<>>] :
        k \in {"network_error", "500", "empty", "parse_error"}}
    \cup {[kind |-> "200", data |-> <<d>>] : d \in ZenQuotes}

\* one turn of `for i in range(max_quotes)` (122-176)
ZenRequest ==
    /\ harvester = ZENQUOTES
    /\ hpc = "pages"
    /\ page <= MaxUnits
    /\ \E ssl_error \in BOOLEAN : \E answer \in ZenAnswers :
        LET gets == ssl_retry(page, ssl_error) \o <<Get(page, answer.kind)>>
            seen == {q.text : q \in Range(harvested)}
            text == IF answer.kind = "200" THEN strip(answer.data[1].q) ELSE <<>>
            author == IF answer.kind = "200" THEN answer.data[1].a ELSE ""
        IN  IF answer.kind \in {"network_error", "500"}
            THEN /\ requests' = requests \o gets \o <<Sleep(page, 5000)>>
                 /\ UNCHANGED harvested
            ELSE IF answer.kind \in {"empty", "parse_error"} \/ text \in seen
            THEN /\ requests' = requests \o gets
                 /\ UNCHANGED harvested
            ELSE /\ requests' = requests \o gets \o <<Sleep(page, 1000)>>
                 /\ harvested' =
                        IF valid(text)
                        THEN Append(harvested,
                                    Quote(text,
                                          IF author # "" THEN author ELSE NoAuthor,
                                          "zenquotes", "en"))
                        ELSE harvested
    /\ page' = page + 1
    /\ UNCHANGED <<dir_vars, conc_vars, val_vars, aph_vars, fs, store, merge_vars, import_vars, pipe_vars, harvester, net,
                   hpc, probe_i, site_available, working_base_url, pattern_i,
                   returned, output_file>>

---------------------------------------------------------------------------
(* harvest_wikiquote_ru (harvest_wikiquote_ru.py 130-320).                 *)

\* what a request of an author page ends in: a status code, or requests.get
\* raises
WikiAnswers == {"200", "404", "403", "500", "network_error"}

\* the records of an author page that pass the filters
WikiYields(u) ==
    { <<>>, <<Quote(T_wait, Authors[u], "wikiquote_ru", "ru")>> }

\* the answer to 403 (207-233): time.sleep(30), then the page is requested
\* once more
rate_limit_events_twice(u, retry) ==
    <<Sleep(u, 30000), Get(u, "403"), Sleep(u, 30000), Get(u, retry)>>
rate_limit_events(u, retry) == <<Sleep(u, 30000), Get(u, retry)>>

\* how the turn of an author ends: the page is not there (201-205), the
\* retry after a 403 is answered with 403 or raises (219-233), the page is
\* parsed (235-301), raise_for_status or requests.get raises (303-306), the
\* parser raises (307-310)
wiki_outcome(first, retry, parsed) ==
    IF first = "404" THEN "not_found"
    ELSE IF first = "403" /\ retry \in {"403", "network_error"}
    THEN "rate_limited"
    ELSE IF (IF first = "403" THEN retry ELSE first) = "200" THEN parsed
    ELSE "request_error"

\* one turn of `for author in authors` (177-310)
WikiAuthor ==
    /\ harvester = WIKIQUOTE_RU
    /\ hpc = "pages"
    /\ page <= MaxUnits
    /\ \E ssl_error \in BOOLEAN : \E first \in WikiAnswers :
       \E retry \in IF first = "403" THEN WikiAnswers ELSE {"200"} :
       \E parsed \in {"parsed", "parse_error"} :
       \E yield \in WikiYields(page) :
        LET gets == ssl_retry(page, ssl_error) \o <<Get(page, first)>>
                    \o (IF first = "403" THEN rate_limit_events(page, retry)
                        ELSE <<>>)
            ended == wiki_outcome(first, retry, parsed)
        IN  /\ requests' =
                   requests \o gets \o
                   (IF ended \in {"not_found", "rate_limited", "parsed"}
                    THEN <<Sleep(page, 5000)>> ELSE <<>>)
            /\ harvested' = IF ended = "parsed" THEN harvested \o yield
                            ELSE harvested
    /\ page' = page + 1
    /\ UNCHANGED <<dir_vars, conc_vars, val_vars, aph_vars, fs, store, merge_vars, import_vars, pipe_vars, harvester, net,
                   hpc, probe_i, site_available, working_base_url, pattern_i,
                   returned, output_file>>

---------------------------------------------------------------------------
(* harvest_goodreads (harvest_goodreads.py 103-275).                       *)

\* max_retries (136)
MAX_RETRIES == 3

\* the records of a page that pass the filters
GoodreadsYields == { <<>>, <<Quote(T_time, "Seneca", "goodreads", "en")>> }

\* what becomes of a response: .quoteText elements are found (223-251),
\* there are none (219-221), raise_for_status raises (214), the parser raises
GoodreadsBodies == {"elements", "no_elements", "500", "parse_error"}

\* one turn of `for attempt in range(max_retries)` (139-210) and, when it
\* leaves the retry loop, the rest of the turn of the page loop (212-263).
\* SSLError, Timeout and ConnectionError are the errors of the inner handler
\* (146-148).  Before the last attempt a failed request is followed by
\* time.sleep(retry_delay) and a request with verify=False, whose failure
\* goes on to the next attempt (164-167); on the last attempt the request with
\* verify=False follows at once and its failure is raised to the handler of
\* the page (257-260)
GoodreadsAttempt ==
    /\ harvester = GOODREADS
    /\ hpc = "pages"
    /\ page <= MaxUnits
    /\ pattern_i < MAX_RETRIES
    /\ \E first \in {"200", "network_error"} :
       \E second \in IF first = "200" THEN {"200"} ELSE {"200", "network_error"} :
       \E body \in GoodreadsBodies :
       \E yield \in GoodreadsYields :
        LET last == pattern_i = MAX_RETRIES - 1
            gets == IF first = "200" THEN <<Get(page, body)>>
                    ELSE <<Get(page, first)>>
                         \o (IF last THEN <<>> ELSE <<Sleep(page, 5000)>>)
                         \o <<Get(page, IF second = "200" THEN body ELSE second)>>
        IN  IF second = "network_error"
            THEN IF last
                 THEN /\ requests' = requests \o gets \o <<Sleep(page, 30000)>>
                      /\ page' = page + 1
                      /\ pattern_i' = 0
                      /\ UNCHANGED <<harvested, hpc>>
                 ELSE /\ requests' = requests \o gets
                      /\ pattern_i' = pattern_i + 1
                      /\ UNCHANGED <<harvested, hpc, page>>
            ELSE /\ pattern_i' = 0
                 /\ CASE body = "elements" ->
                            /\ requests' = requests \o gets \o <<Sleep(page, 10000)>>
                            /\ harvested' = harvested \o yield
                            /\ page' = page + 1
                            /\ UNCHANGED hpc
                      [] body = "no_elements" ->
                            /\ requests' = requests \o gets
                            /\ hpc' = "save"
                            /\ UNCHANGED <<harvested, page>>
                      [] body = "500" ->
                            /\ requests' = requests \o gets \o <<Sleep(page, 30000)>>
                            /\ page' = page + 1
                            /\ UNCHANGED <<harvested, hpc>>
                      [] OTHER ->
                            /\ requests' = requests \o gets
                            /\ page' = page + 1
                            /\ UNCHANGED <<harvested, hpc>>
    /\ UNCHANGED <<dir_vars, conc_vars, val_vars, aph_vars, fs, store, merge_vars, import_vars, pipe_vars, harvester, net,
                   probe_i, site_available, working_base_url, returned,
                   output_file>>

---------------------------------------------------------------------------
(* harvest_quotable (load/harvest_quotable.py 103-225).                    *)

\* limit of the request (126), the page limit (205)
PAGE_SIZE == 150
PAGE_LIMIT == 100

\* data["results"] of a page
QuotableResults ==
    { <<[content |-> T_time_pad, author |-> "Seneca"]>>,
      <<[content |-> T_short, author |-> ""],
        [content |-> T_deep, author |-> ""]>> }

\* what a request ends in
QuotableAnswers ==
    {[kind |-> k, results |-> <<>>] :
        k \in {"network_error", "500", "empty", "parse_error"}}
    \cup {[kind |-> "200", results |-> r] : r \in QuotableResults}

\* the records of a page (153-163)
quotable_records(results) ==
    LET kept == SelectSeq(results, LAMBDA q : valid(strip(q.content)))
    IN  [i \in DOMAIN kept |->
            Quote(strip(kept[i].content),
                  IF kept[i].author # "" THEN kept[i].author ELSE NoAuthor,
                  "quotable", "en")]

\* the turn reaches `page += 1` (170-201): hasNext is not False and the
\* estimate from totalCount is not reached
quotable_has_more(has_next, total_count, n) ==
    /\ has_next # "false"
    /\ ~ (/\ has_next = "none"
          /\ total_count > 0
          /\ n >= (total_count + PAGE_SIZE - 1) \div PAGE_SIZE)

\* one turn of `while True` (118-217); the API has MaxUnits pages.  A
\* request or parser error and an empty page leave the loop
QuotablePage ==
    /\ harvester = QUOTABLE
    /\ hpc = "pages"
    /\ \E ssl_error \in BOOLEAN : \E answer \in QuotableAnswers :
       \E has_next \in {"true", "false", "none"} :
       \E total_count \in {0, PAGE_SIZE, PAGE_SIZE * (MaxUnits + 1)} :
        LET gets == ssl_retry(page, ssl_error) \o <<Get(page, answer.kind)>>
            more == /\ answer.kind = "200"
                    /\ quotable_has_more(has_next, total_count, page)
        IN  /\ more => page < MaxUnits
            /\ harvested' = IF answer.kind = "200"
                            THEN harvested \o quotable_records(answer.results)
                            ELSE harvested
            /\ IF more
               THEN /\ requests' = requests \o gets \o <<Sleep(page, 500)>>
                    /\ page' = page + 1
                    /\ hpc' = IF page + 1 > PAGE_LIMIT THEN "save" ELSE hpc
               ELSE /\ requests' = requests \o gets
                    /\ hpc' = "save"
                    /\ UNCHANGED page
    /\ UNCHANGED <<dir_vars, conc_vars, val_vars, aph_vars, fs, store, merge_vars, import_vars, pipe_vars, harvester, net,
                   probe_i, site_available, working_base_url, pattern_i,
                   returned, output_file>>

---------------------------------------------------------------------------

\* the for loop of harvest_zenquotes, harvest_wikiquote_ru or
\* harvest_goodreads is through
LoopEnds ==
    /\ harvester \in {ZENQUOTES, WIKIQUOTE_RU, GOODREADS}
    /\ hpc = "pages"
    /\ page > MaxUnits
    /\ hpc' = "save"
    /\ UNCHANGED <<dir_vars, conc_vars, val_vars, aph_vars, fs, store, merge_vars, import_vars, pipe_vars, harvester, net,
                   probe_i, site_available, working_base_url, page, pattern_i,
                   requests, harvested, returned, output_file>>

\* `if quotes:` the list is written; the list is returned (zenquotes
\* 181-187, wikiquote_ru 314-319, goodreads 268-274, quotable 219-224)
SaveQuotes ==
    /\ harvester \in {ZENQUOTES, WIKIQUOTE_RU, GOODREADS, QUOTABLE}
    /\ hpc = "save"
    /\ output_file' = IF harvested # <<>> THEN Batch(harvested) ELSE output_file
    /\ returned' = ReturnedList(harvested)
    /\ hpc' = "done"
    /\ UNCHANGED <<dir_vars, conc_vars, val_vars, aph_vars, fs, store, merge_vars, import_vars, pipe_vars, harvester, net,
                   probe_i, site_available, working_base_url, page, pattern_i,
                   requests, harvested>>

LoopNext ==
    \/ ZenRequest
    \/ WikiAuthor
    \/ GoodreadsAttempt
    \/ QuotablePage
    \/ LoopEnds
    \/ SaveQuotes

SpecLoops == LoopInit /\ [][LoopNext]_vars

---------------------------------------------------------------------------
(* Claims about the request loops.                                         *)

UnitEvents(u) == SelectSeq(requests, LAMBDA e : e.unit = u)
UnitRequested(u) ==
    \E i \in DOMAIN requests : requests[i].phase = "get" /\ requests[i].unit = u

\* C18 (as stated): every request in the log that is not the last entry is
\* followed by a sleep of the harvester, so no two requests are issued back
\* to back
C18_SleepAfterEveryRequest ==
    \A i \in DOMAIN requests :
        (requests[i].phase = "get" /\ i < Len(requests))
            => requests[i + 1].phase = "sleep"

\* the last request of unit u ended in a network error
NetworkFailed(u) ==
    LET gets == SelectSeq(UnitEvents(u), LAMBDA e : e.phase = "get")
    IN  /\ gets # <<>>
        /\ gets[Len(gets)].answer \in {"network_error", "ssl_error"}

\* C19 (as stated): no page is requested more often than the retry bound
\* allows, and a harvester that has ended has, after a page whose last
\* attempt failed with a network error, requested the next page and
\* returned the records it had collected
C19_NetworkErrorSkipsOnlyThePage ==
    /\ \A u \in 1..MaxUnits :
          Len(SelectSeq(UnitEvents(u), LAMBDA e : e.phase = "get"))
              <= 2 * MAX_RETRIES
    /\ hpc = "done" =>
          /\ returned = ReturnedList(harvested)
          /\ \A u \in 1..(MaxUnits - 1) : NetworkFailed(u) => UnitRequested(u + 1)

\* the author of unit u was answered with 403
RateLimited(u) ==
    \E i \in DOMAIN requests :
        requests[i].unit = u /\ requests[i].answer = "403"

\* what the log holds for unit u after the first answer 403
AfterRateLimit(u) ==
    LET E == UnitEvents(u)
        k == CHOOSE j \in DOMAIN E :
                /\ E[j].answer = "403"
                /\ \A i \in 1..(j - 1) : E[i].answer # "403"
    IN  SubSeq(E, k + 1, Len(E))

\* C20: after the first 403 for an author, harvest_wikiquote_ru sleeps 30
\* seconds once and requests the page once more, and nothing else is
\* requested for that author; when the retry is answered with 403 or
\* raises, no record of that author is collected, the loop has moved on to
\* the next author, and a run that has ended has requested every later
\* author
C20_RateLimitOneBackoffOneRetry ==
    harvester = WIKIQUOTE_RU =>
        \A u \in 1..MaxUnits : RateLimited(u) =>
            LET after == AfterRateLimit(u) IN
            /\ Len(after) >= 2
            /\ after[1] = Sleep(u, 30000)
            /\ after[2].phase = "get"
            /\ Cardinality({j \in DOMAIN after : after[j].phase = "get"}) = 1
            /\ Cardinality({j \in DOMAIN after : after[j].ms = 30000}) = 1
            /\ after[2].answer \in {"403", "network_error"} =>
                  /\ \A i \in DOMAIN harvested : harvested[i].author # Authors[u]
                  /\ page > u
                  /\ returned.kind # "raised"
                  /\ hpc = "done" => \A v \in (u + 1)..MaxUnits : UnitRequested(v)

\* the first author was answered with 403 twice and was skipped, the second
\* author gave a record, and the run has ended
C20_Witness ==
    /\ harvester = WIKIQUOTE_RU
    /\ hpc = "done"
    /\ UnitEvents(1) = <<Get(1, "403"), Sleep(1, 30000), Get(1, "403"), Sleep(1, 5000)>>
    /\ harvested = <<Quote(T_wait, Authors[2], "wikiquote_ru", "ru")>>
    /\ output_file = Batch(harvested)

\* C29 (as stated): when a harvester has returned, its output file holds
\* exactly the records it collected in this run, an empty batch when it
\* collected none
C29_SlotHoldsThisRunsRecords ==
    hpc = "done" => output_file = Batch(harvested)

---------------------------------------------------------------------------
(* The loops whose end depends on a limit of the harvester and not on the  *)
(* source: `while True` of load/harvest_quotable against an API that never *)
(* runs out of pages, and the attempt loop of load/harvest_forismatic.     *)
(* `net` tells whether the certificate of the Quotable API verifies;       *)
(* `requests` holds the requests.get calls only.  For harvest_forismatic   *)
(* `pattern_i` is the index of the language and `page` is `attempts`.      *)

FORISMATIC == "harvest_forismatic.py"
FORISMATIC_URL == "http://api.forismatic.com/api/1.0/"

\* the default of `languages` (line 118)
LANGUAGES == <<"en", "ru">>

\* the parameter max_quotes of harvest_forismatic
MaxQuotes == 2

\* max_attempts = max_quotes * 3 (line 135)
max_attempts_four_times(max_quotes) == max_quotes * 4
max_attempts(max_quotes) == max_quotes * 3

\* requests.get(FORISMATIC_URL, params={..., 'lang': lang, 'key': attempts})
ForismaticGet(lang, key) == [phase |-> "get", unit |-> key, lang |-> lang]

\* what a request of harvest_forismatic ends in: a quoteText, an error of
\* requests (a status of 400 or more included), a body that is not JSON
ForismaticAnswers ==
    {[kind |-> "json", quoteText |-> t] :
        t \in {<<>>, T_time, T_time_lc, T_deep, T_short}}
    \cup {[kind |-> k, quoteText |-> <<>>] : k \in {"request_error", "parse_error"}}

\* lang_quotes: the records accepted for the language
lang_quotes(lang) ==
    Cardinality({i \in DOMAIN harvested : harvested[i].lang = lang})

\* seen: the lower-cased texts accepted so far
seen == {lower(harvested[i].text) : i \in DOMAIN harvested}

\* the records one answer adds to the list (lines 154-182)
forismatic_records(answer, lang) ==
    LET quote_text == strip(answer.quoteText) IN
    IF answer.kind # "json" THEN <<>>
    ELSE IF quote_text = <<>> THEN <<>>
    ELSE IF lower(quote_text) \in seen THEN <<>>
    ELSE IF valid(quote_text)
    THEN <<Quote(quote_text, NoAuthor, "forismatic", lang)>>
    ELSE <<>>

\* the page every request of the endless Quotable API answers with
EndlessResults == <<[content |-> T_short, author |-> ""]>>

EndlessAnswers ==
    {[kind |-> k, results |-> <<>>] :
        k \in {"network_error", "500", "empty", "parse_error"}}
    \cup {[kind |-> "200", results |-> EndlessResults]}

LimitsInit ==
    /\ harvester \in {QUOTABLE, FORISMATIC}
    /\ net \in [{LoopUrl(QUOTABLE)} -> {"verified", "ssl_error"}]
    /\ hpc = "pages"
    /\ probe_i = 0
    /\ site_available = FALSE
    /\ working_base_url = IF harvester = QUOTABLE THEN LoopUrl(QUOTABLE)
                          ELSE FORISMATIC_URL
    /\ page = IF harvester = QUOTABLE THEN 1 ELSE 0
    /\ pattern_i = 1
    /\ requests = <<>>
    /\ harvested = <<>>
    /\ returned = NotReturned
    /\ output_file = Absent
    /\ fs = [f \in FileNames |-> Absent]
    /\ store = <<>>
    /\ MergeIdle
    /\ ImportIdle
    /\ PipeIdle
    /\ ValidatorIdle
    /\ AphorizmIdle
    /\ DirectoryIdle
    /\ ImportersIdle

\* the guard of line 205 never holds; the mutant of the page limit
page_limit_reached_never(n) == FALSE
\* `if page > 100` (line 205)
page_limit_reached(n) == n > PAGE_LIMIT

\* one turn of `while True` (lines 120-217) when the API has a next page
\* for every page
QuotableEndlessPage ==
    /\ harvester = QUOTABLE
    /\ hpc = "pages"
    /\ \E answer \in EndlessAnswers :
       \E has_next \in {"true", "false", "none"} :
       \E total_count \in {0, PAGE_SIZE} :
        LET gets == IF net[LoopUrl(QUOTABLE)] = "ssl_error"
                    THEN <<Get(page, "ssl_error"), Get(page, answer.kind)>>
                    ELSE <<Get(page, answer.kind)>>
            more == /\ answer.kind = "200"
                    /\ quotable_has_more(has_next, total_count, page)
        IN  /\ requests' = requests \o gets
            /\ harvested' = IF answer.kind = "200"
                            THEN harvested \o quotable_records(answer.results)
                            ELSE harvested
            /\ IF more
               THEN /\ page' = page + 1
                    /\ hpc' = IF page_limit_reached(page + 1) THEN "save" ELSE hpc
               ELSE /\ hpc' = "save"
                    /\ UNCHANGED page
    /\ UNCHANGED <<dir_vars, conc_vars, val_vars, aph_vars, fs, store,
                   merge_vars, import_vars, pipe_vars, harvester, net, probe_i,
                   site_available, working_base_url, pattern_i, returned,
                   output_file>>

\* one turn of `while lang_quotes < max_quotes and attempts < max_attempts`
\* (lines 137-205): every path adds one to attempts
ForismaticAttempt ==
    /\ harvester = FORISMATIC
    /\ hpc = "pages"
    /\ pattern_i <= Len(LANGUAGES)
    /\ LET lang == LANGUAGES[pattern_i] IN
        /\ lang_quotes(lang) < MaxQuotes
        /\ page < max_attempts(MaxQuotes)
        /\ \E answer \in ForismaticAnswers :
            /\ requests' = Append(requests, ForismaticGet(lang, page))
            /\ harvested' = harvested \o forismatic_records(answer, lang)
        /\ page' = page + 1
    /\ UNCHANGED <<dir_vars, conc_vars, val_vars, aph_vars, fs, store,
                   merge_vars, import_vars, pipe_vars, harvester, net, hpc,
                   probe_i, site_available, working_base_url, pattern_i,
                   returned, output_file>>

\* the while loop of a language is through (lines 133-135, 207-209)
ForismaticNextLanguage ==
    /\ harvester = FORISMATIC
    /\ hpc = "pages"
    /\ pattern_i <= Len(LANGUAGES)
    /\ \/ lang_quotes(LANGUAGES[pattern_i]) >= MaxQuotes
       \/ page >= max_attempts(MaxQuotes)
    /\ pattern_i' = pattern_i + 1
    /\ page' = 0
    /\ hpc' = IF pattern_i + 1 > Len(LANGUAGES) THEN "save" ELSE hpc
    /\ UNCHANGED <<dir_vars, conc_vars, val_vars, aph_vars, fs, store,
                   merge_vars, import_vars, pipe_vars, harvester, net, probe_i,
                   site_available, working_base_url, requests, harvested,
                   returned, output_file>>

\* the list is written and returned (lines 213-217)
ForismaticSave ==
    /\ harvester = FORISMATIC
    /\ hpc = "save"
    /\ output_file' = Batch(harvested)
    /\ returned' = ReturnedList(harvested)
    /\ hpc' = "done"
    /\ UNCHANGED <<dir_vars, conc_vars, val_vars, aph_vars, fs, store,
                   merge_vars, import_vars, pipe_vars, harvester, net, probe_i,
                   site_available, working_base_url, page, pattern_i, requests,
                   harvested>>

LimitsNext ==
    \/ QuotableEndlessPage
    \/ ForismaticAttempt
    \/ ForismaticNextLanguage
    \/ ForismaticSave
    \/ SaveQuotes

\* the interpreter goes on executing the harvester
SpecLimits == LimitsInit /\ [][LimitsNext]_vars /\ WF_vars(LimitsNext)

---------------------------------------------------------------------------
(* Claims about the limits of the harvesters.                              *)

\* the requests of a page of the Quotable API that were sent, i.e. did not
\* fail in the verification of the certificate
PageRequests(n) ==
    {i \in DOMAIN requests : requests[i].unit = n /\ requests[i].answer # "ssl_error"}

\* the requests harvest_forismatic issued for a language
LanguageRequests(lang) == {i \in DOMAIN requests : requests[i].lang = lang}

RequestsWithinLimits ==
    /\ harvester = QUOTABLE =>
        /\ \A i \in DOMAIN requests : requests[i].unit \in 1..PAGE_LIMIT
        /\ \A n \in 1..PAGE_LIMIT : Cardinality(PageRequests(n)) <= 1
        /\ Len(requests) <= 2 * PAGE_LIMIT
    /\ harvester = FORISMATIC =>
        \A l \in Range(LANGUAGES) :
            /\ Cardinality(LanguageRequests(l)) <= 3 * MaxQuotes
            /\ lang_quotes(l) <= MaxQuotes

---------------------------------------------------------------------------
(* The copies of is_valid_quotation that the harvesters embed.  The copies *)
(* of harvest_zenquotes.py, load/harvest_quotable.py and                   *)
(* harvest_goodreads.py are, statement for statement, the function of      *)
(* import_to_postgres.py (is_valid_quotation above).  The copy of          *)
(* harvest_citaty_net.py (24-98; harvest_wikiquote_ru.py and               *)
(* load/harvest_anecdot_ru.py embed the same text) and the copy of         *)
(* harvest_citaty_info.py (27-99) differ from it.                          *)

UpperCyrillicSet == Range(UpperCyrillic)
LowerCyrillicSet == Range(LowerCyrillic)

\* [А-ЯЁ][а-яё]+ occupying exactly the positions i..j of t
cap_word_ru(t, i, j) ==
    /\ 1 <= i /\ i < j /\ j <= Len(t)
    /\ t[i] \in UpperCyrillicSet
    /\ \A k \in (i + 1)..j : t[k] \in LowerCyrillicSet

\* re.search(r'\b[А-ЯЁ][а-яё]+\s+[А-ЯЁ][а-яё]+', text) (citaty_net 51)
has_two_cap_words_ru(t) ==
    \E i \in DOMAIN t : \E j \in (i + 1)..Len(t) : \E n \in (j + 1)..Len(t) :
        /\ word_boundary(t, i)
        /\ cap_word_ru(t, i, j)
        /\ \A k \in (j + 1)..n : isspace(t[k])
        /\ cap_word_ru(t, n + 1, n + 2)

\* re.search(r'["«»""][А-ЯЁ][а-яё]+.*[А-ЯЁ][а-яё]+["«»""]', text)
\* (citaty_net 67)
has_quoted_title_ru(t) ==
    \E i \in DOMAIN t : \E p \in (i + 3)..Len(t) : \E q \in (p + 1)..Len(t) :
        /\ t[i] \in quote_marks
        /\ cap_word_ru(t, i + 1, i + 2)
        /\ \A k \in (i + 1)..q : t[k] # "\n"
        /\ cap_word_ru(t, p, q)
        /\ q + 1 <= Len(t)
        /\ t[q + 1] \in quote_marks

\* place_keywords of harvest_citaty_net.py (57-61) and of
\* harvest_citaty_info.py
place_keywords_ru ==
    { <<"U+0443", "U+043B", "U+0438", "U+0446", "U+0430">>,
      <<"U+043F", "U+0440", "U+043E", "U+0441", "U+043F", "U+0435", "U+043A", "U+0442">>,
      <<"U+043F", "U+0435", "U+0440", "U+0435", "U+0443", "U+043B", "U+043E", "U+043A">>,
      <<"U+043C", "U+043E", "U+0441", "U+043A", "U+0432", "U+0430">>,
      <<"U+043B", "U+043E", "U+043D", "U+0434", "U+043E", "U+043D">>,
      <<"U+043F", "U+0430", "U+0440", "U+0438", "U+0436">>,
      <<"s", "t", "r", "e", "e", "t">>,
      <<"a", "v", "e", "n", "u", "e">>,
      <<"r", "o", "a", "d">> }

\* the Russian month names, which every copy lists
month_names_ru == {w \in month_names : w[1] \notin az}

\* month_names of harvest_citaty_net.py (75-80): the Russian names and
\* january to april
month_names_citaty_net ==
    month_names_ru \cup
    { <<"j", "a", "n", "u", "a", "r", "y">>,
      <<"f", "e", "b", "r", "u", "a", "r", "y">>,
      <<"m", "a", "r", "c", "h">>,
      <<"a", "p", "r", "i", "l">> }

\* theater_keywords of harvest_citaty_info.py: the Russian words only
theater_keywords_ru == {w \in theater_keywords : w[1] \notin az}

\* is_valid_quotation of harvest_citaty_net.py (24-98)
citaty_net_is_valid_quotation(text) ==
    IF text = <<>> \/ Len(strip(text)) < MIN_LENGTH THEN FALSE
    ELSE LET t == join_split(text) IN
         IF has_digit(t) THEN FALSE
         ELSE IF has_roman_numeral(t) THEN FALSE
         ELSE IF has_two_cap_words_ru(t) /\ ~isupper(t[1]) THEN FALSE
         ELSE IF \E w \in place_keywords_ru : search_word(t, w) THEN FALSE
         ELSE IF has_quoted_title_ru(t) THEN FALSE
         ELSE IF \E w \in url_markers : search_literal(t, w) THEN FALSE
         ELSE IF \E w \in month_names_citaty_net : search_word(t, w) THEN FALSE
         ELSE IF \E w \in theater_keywords : search_word(t, w) THEN FALSE
         ELSE IF has_spam_run(t) THEN FALSE
         ELSE TRUE

\* is_valid_quotation of harvest_citaty_info.py (27-99)
citaty_info_is_valid_quotation(text) ==
    IF text = <<>> \/ Len(strip(text)) < MIN_LENGTH THEN FALSE
    ELSE LET t == join_split(text) IN
         IF has_digit(t) THEN FALSE
         ELSE IF has_roman_numeral(t) THEN FALSE
         ELSE IF has_two_cap_words_ru(t) /\ ~isupper(t[1]) THEN FALSE
         ELSE IF \E w \in place_keywords_ru : search_word(t, w) THEN FALSE
         ELSE IF has_quoted_title_ru(t) THEN FALSE
         ELSE IF \E w \in url_markers : search_literal(t, w) THEN FALSE
         ELSE IF \E w \in month_names_ru : search_word(t, w) THEN FALSE
         ELSE IF \E w \in theater_keywords_ru : search_word(t, w) THEN FALSE
         ELSE IF has_spam_run(t) THEN FALSE
         ELSE TRUE

---------------------------------------------------------------------------
(* The validators applied to one text.                                     *)

\* the longest run of spaces between the two halves of a text
MaxGap == 6

Spaces(k) == [i \in 1..k |-> " "]

H_be == <<"B", "e", " ", "k", "i", "n", "d">>
H_they == <<"t", "h", "e", "y", " ", "s", "a", "i", "d">>
Heads == {H_be, H_they}

L_all == <<"t", "o", " ", "a", "l", "l", ".">>
L_people == <<"t", "o", " ", "a", "l", "l", " ", "t", "h", "e", " ", "p", "e", "o", "p", "l", "e", ".">>
L_may == <<"y", "o", "u", " ", "m", "a", "y", " ", "m", "e", "e", "t", " ", "t", "h", "e", "m", ".">>
L_paris == <<"i", "n", " ", "P", "a", "r", "i", "s", ".">>
Tails == {L_all, L_people, L_may, L_paris}

\* the texts handed to the validators: two halves, between them a run of
\* spaces, around them no whitespace or one space
ValidatorTexts ==
    { pad \o h \o Spaces(k) \o tl \o pad :
        pad \in {<<>>, <<" ">>}, h \in Heads, k \in 1..MaxGap, tl \in Tails }

verdict(b) == IF b THEN "True" ELSE "False"

ValidatorInit ==
    /\ vtext \in ValidatorTexts
    /\ vresult = NotValidated
    /\ fs = [f \in FileNames |-> Absent]
    /\ store = <<>>
    /\ MergeIdle
    /\ ImportIdle
    /\ PipeIdle
    /\ HarvIdle
    /\ AphorizmIdle
    /\ DirectoryIdle
    /\ ImportersIdle

\* is_valid_quotation(text) of import_to_postgres.py is called
ImporterValidates ==
    /\ vresult.importer = "none"
    /\ vresult' = [vresult EXCEPT !.importer = verdict(is_valid_quotation(vtext))]
    /\ UNCHANGED <<dir_vars, conc_vars, fs, store, merge_vars, import_vars, pipe_vars,
                 harv_vars, aph_vars,
                 vtext>>

\* is_valid_quotation(text) of harvest_citaty_net.py is called
CitatyNetValidates ==
    /\ vresult.citaty_net = "none"
    /\ vresult' = [vresult EXCEPT
                     !.citaty_net = verdict(citaty_net_is_valid_quotation(vtext))]
    /\ UNCHANGED <<dir_vars, conc_vars, fs, store, merge_vars, import_vars, pipe_vars,
                 harv_vars, aph_vars,
                 vtext>>

\* is_valid_quotation(text) of harvest_citaty_info.py is called
CitatyInfoValidates ==
    /\ vresult.citaty_info = "none"
    /\ vresult' = [vresult EXCEPT
                     !.citaty_info = verdict(citaty_info_is_valid_quotation(vtext))]
    /\ UNCHANGED <<dir_vars, conc_vars, fs, store, merge_vars, import_vars, pipe_vars,
                 harv_vars, aph_vars,
                 vtext>>

ValidatorNext ==
    \/ ImporterValidates
    \/ CitatyNetValidates
    \/ CitatyInfoValidates

SpecValidator == ValidatorInit /\ [][ValidatorNext]_vars

---------------------------------------------------------------------------
(* Claims about the validators.                                            *)

\* C24 (as stated): a text the importer's validator accepted has at least
\* 20 characters after whitespace normalization
C24_ShortNormalizedRejected ==
    vresult.importer = "True" => Len(join_split(vtext)) >= MIN_LENGTH

\* C25 (as stated): the importer's validator returns for a text what it
\* returns for the whitespace-normalized text
C25_InvariantUnderNormalization ==
    vresult.importer # "none" =>
        vresult.importer = verdict(is_valid_quotation(join_split(vtext)))

\* C30 (as stated): a copy embedded in a harvester returns what the
\* importer's validator returns
C30_CopiesAgreeWithImporter ==
    vresult.importer # "none" =>
        /\ vresult.citaty_net \in {"none", vresult.importer}
        /\ vresult.citaty_info \in {"none", vresult.importer}

---------------------------------------------------------------------------
(* The step of a harvester that turns a candidate text into a record:      *)
(* harvest_zenquotes (145-162), harvest_citaty_net (211-232) and           *)
(* load/harvest_forismatic (154-182), applied to candidates one after the  *)
(* other.  `vtext` is the candidate as the harvester tests it, `page`      *)
(* counts the candidates, `pattern_i` is the index of the language         *)
(* harvest_forismatic asks for.                                            *)

CITATY_NET == "harvest_citaty_net.py"

\* `len(text) >= 20` of harvest_citaty_net.py (line 219)
MIN_ELEMENT_LENGTH == 20

\* "Tishe edesh'" in Cyrillic
T_tishe_short == SubSeq(T_tishe, 1, 10)
T_tishe_pad == <<" ">> \o T_tishe \o <<" ", " ">>

\* the texts the sources hand to the harvesters; none holds markup
Candidates ==
    {<<>>, T_time, T_time_pad, T_short, T_oak, T_tishe, T_tishe_pad,
     T_tishe_short}

\* clean_text of harvest_citaty_net.py (100-121) for a text without tags
clean_text(text) == strip(join_split(text))

\* re.search(r'[а-яёА-ЯЁ]', text) (line 216)
has_cyrillic(text) ==
    \E i \in DOMAIN text : text[i] \in UpperCyrillicSet \cup LowerCyrillicSet

\* the text a harvester tests and stores
tested_text(h, candidate) ==
    IF h = CITATY_NET THEN clean_text(candidate) ELSE strip(candidate)

\* harvest_zenquotes: the duplicate check and the filter (lines 149-162)
zenquotes_records(text) ==
    IF text \in {harvested[i].text : i \in DOMAIN harvested} THEN <<>>
    ELSE IF valid(text) THEN <<Quote(text, NoAuthor, "zenquotes", "en")>>
    ELSE <<>>

\* harvest_citaty_net accepts every element (the mutant of the tests)
citaty_net_records_untested(text) ==
    <<Quote(text, NoAuthor, "citaty_net", "ru")>>
\* harvest_citaty_net: the language check and the filter (lines 216-232)
citaty_net_records(text) ==
    IF ~has_cyrillic(text) THEN <<>>
    ELSE IF Len(text) >= MIN_ELEMENT_LENGTH /\ citaty_net_is_valid_quotation(text)
    THEN <<Quote(text, NoAuthor, "citaty_net", "ru")>>
    ELSE <<>>

AcceptInit ==
    /\ harvester \in {ZENQUOTES, CITATY_NET, FORISMATIC}
    /\ pattern_i \in IF harvester = FORISMATIC THEN DOMAIN LANGUAGES ELSE {1}
    /\ hpc = "pages"
    /\ page = 1
    /\ vtext = <<>>
    /\ vresult = NotValidated
    /\ harvested = <<>>
    /\ net = <<>>
    /\ probe_i = 0
    /\ site_available = FALSE
    /\ working_base_url = ""
    /\ requests = <<>>
    /\ returned = NotReturned
    /\ output_file = Absent
    /\ fs = [f \in FileNames |-> Absent]
    /\ store = <<>>
    /\ MergeIdle
    /\ ImportIdle
    /\ PipeIdle
    /\ AphorizmIdle
    /\ DirectoryIdle
    /\ ImportersIdle

\* harvest_zenquotes is handed data[0]["q"] (lines 145-162)
ZenquotesAccepts ==
    /\ harvester = ZENQUOTES
    /\ hpc = "pages"
    /\ page <= MaxUnits
    /\ \E candidate \in Candidates :
        /\ vtext' = tested_text(ZENQUOTES, candidate)
        /\ harvested' = harvested \o zenquotes_records(vtext')
    /\ page' = page + 1
    /\ UNCHANGED <<dir_vars, conc_vars, aph_vars, fs, store, merge_vars,
                   import_vars, pipe_vars, harvester, net, hpc, probe_i,
                   site_available, working_base_url, pattern_i, requests,
                   returned, output_file, vresult>>

\* harvest_citaty_net is handed the text of an element (lines 211-232)
CitatyNetAccepts ==
    /\ harvester = CITATY_NET
    /\ hpc = "pages"
    /\ page <= MaxUnits
    /\ \E candidate \in Candidates :
        /\ vtext' = tested_text(CITATY_NET, candidate)
        /\ harvested' = harvested \o citaty_net_records(vtext')
    /\ page' = page + 1
    /\ UNCHANGED <<dir_vars, conc_vars, aph_vars, fs, store, merge_vars,
                   import_vars, pipe_vars, harvester, net, hpc, probe_i,
                   site_available, working_base_url, pattern_i, requests,
                   returned, output_file, vresult>>

\* harvest_forismatic is handed data['quoteText'] (lines 154-182)
ForismaticAccepts ==
    /\ harvester = FORISMATIC
    /\ hpc = "pages"
    /\ page <= MaxUnits
    /\ \E candidate \in Candidates :
        /\ vtext' = tested_text(FORISMATIC, candidate)
        /\ harvested' = harvested \o forismatic_records(
                                        [kind |-> "json", quoteText |-> candidate],
                                        LANGUAGES[pattern_i])
    /\ page' = page + 1
    /\ UNCHANGED <<dir_vars, conc_vars, aph_vars, fs, store, merge_vars,
                   import_vars, pipe_vars, harvester, net, hpc, probe_i,
                   site_available, working_base_url, pattern_i, requests,
                   returned, output_file, vresult>>

\* the harvester returns its list
AcceptReturns ==
    /\ hpc = "pages"
    /\ page > MaxUnits
    /\ returned' = ReturnedList(harvested)
    /\ hpc' = "done"
    /\ UNCHANGED <<dir_vars, conc_vars, val_vars, aph_vars, fs, store,
                   merge_vars, import_vars, pipe_vars, harvester, net, probe_i,
                   site_available, working_base_url, page, pattern_i, requests,
                   harvested, output_file>>

AcceptNext ==
    \/ ZenquotesAccepts
    \/ CitatyNetAccepts
    \/ ForismaticAccepts
    \/ AcceptReturns

SpecAccept == AcceptInit /\ [][AcceptNext]_vars

---------------------------------------------------------------------------
(* Claims about the records a harvester accepts.                           *)

\* the copy of is_valid_quotation the harvester embeds
copy_accepts(h, text) ==
    IF h = CITATY_NET THEN citaty_net_is_valid_quotation(text)
    ELSE is_valid_quotation(text)

\* the source identifier and the language the harvester declares
OwnSource(h) ==
    CASE h = ZENQUOTES -> "zenquotes"
      [] h = CITATY_NET -> "citaty_net"
      [] OTHER -> "forismatic"
DeclaredLang(h) ==
    CASE h = ZENQUOTES -> "en"
      [] h = CITATY_NET -> "ru"
      [] OTHER -> LANGUAGES[pattern_i]

\* the candidate fails the harvester's filter or its language check
Rejected(h, text) ==
    \/ text = <<>>
    \/ ~copy_accepts(h, text)
    \/ h = CITATY_NET /\ ~has_cyrillic(text)

\* C34: every record of the harvester's list passes the harvester's own
\* is_valid_quotation (and, in harvest_citaty_net, the test for Cyrillic
\* letters), has the harvester's source identifier and the language it
\* declares; a candidate that fails is in the list neither in the state
\* after it was tested nor in what the harvester returns
C34_AcceptedRecordsValidAndLabeled ==
    /\ \A i \in DOMAIN harvested :
        /\ ~Rejected(harvester, harvested[i].text)
        /\ harvested[i].source = OwnSource(harvester)
        /\ harvested[i].lang = DeclaredLang(harvester)
    /\ page > 1 /\ Rejected(harvester, vtext) =>
        \A i \in DOMAIN harvested : harvested[i].text # vtext
    /\ returned.kind = "list" => returned.value = harvested

\* harvest_citaty_net has returned a list with one record after it was
\* handed a text without Cyrillic letters or a Russian text that is too
\* short
C34_Witness ==
    /\ harvester = CITATY_NET
    /\ hpc = "done"
    /\ Len(harvested) = 1
    /\ Rejected(harvester, vtext)
    /\ vtext # <<>>

---------------------------------------------------------------------------
(* Two runs of import_to_postgres at the same time on one corpus and one   *)
(* store. Each run has its own connection: its statements see the          *)
(* committed rows and its own uncommitted inserts. The steps of a run are  *)
(* the statements it sends: the SELECT of lines 335-340 and the INSERT of  *)
(* lines 346-350 are separate steps, so the other run can act in between.  *)

Runs == {1, 2}
OtherRun(r) == 3 - r

NotStarted(clear_existing) ==
    [pc |-> "start", clear |-> clear_existing, i |-> 1, pending |-> <<>>,
     stats |-> ZeroStats]

ConcurrentInit ==
    /\ \E c \in CorpusContents(MaxCorpus) \ {Absent, Garbage} :
        fs = [f \in FileNames |-> IF f = CORPUS_JSON THEN c ELSE Absent]
    /\ store \in InitialStores
    /\ db = "ok"
    /\ last_run = NoRun
    /\ prev_run = NoRun
    /\ \E c1, c2 \in BOOLEAN : importers = <<NotStarted(c1), NotStarted(c2)>>
    /\ MergeIdle
    /\ PipeIdle
    /\ HarvIdle
    /\ ValidatorIdle
    /\ AphorizmIdle
    /\ DirectoryIdle

\* the transaction of run r: the committed rows, its uncommitted inserts
\* and its counters
Txn(r) ==
    [store |-> store, pending |-> importers[r].pending,
     stats |-> importers[r].stats]

\* run r goes on at (pc2, i2) with the transaction in state st
Proceed(r, st, pc2, i2) ==
    /\ store' = st.store
    /\ importers' = [importers EXCEPT ![r].pc = pc2, ![r].i = i2,
                                      ![r].pending = st.pending,
                                      ![r].stats = st.stats]
    /\ UNCHANGED <<dir_vars, val_vars, aph_vars, fs, import_vars, merge_vars,
                   pipe_vars, harv_vars>>

\* lines 291-314: load the corpus, connect, DELETE FROM quotations and
\* commit if clear_existing
ImporterConnect(r) ==
    /\ importers[r].pc = "start"
    /\ LET st == [store |-> IF importers[r].clear THEN <<>> ELSE store,
                  pending |-> <<>>,
                  stats |-> [ZeroStats EXCEPT
                                !.loaded = Len(fs[CORPUS_JSON].data)]]
       IN  Proceed(r, st, "check", 1)

\* lines 318-343 for the record at i: up to and including the SELECT
ImporterCheck(r) ==
    /\ importers[r].pc = "check"
    /\ importers[r].i <= Len(fs[CORPUS_JSON].data)
    /\ LET quote == fs[CORPUS_JSON].data[importers[r].i]
           st == Txn(r)
           next == importers[r].i + 1
       IN  IF quote.text = NullText THEN Proceed(r, on_error(st), "check", next)
           ELSE LET text == strip(quote.text)
                    lang == IF quote.lang = MissingLang THEN "en" ELSE quote.lang
                IN  IF text = <<>> THEN Proceed(r, skip(st), "check", next)
                    ELSE IF ~valid(text) THEN Proceed(r, skip(st), "check", next)
                    ELSE IF existing(visible_rows(st), text, lang)
                         THEN Proceed(r, skip(st), "check", next)
                    ELSE Proceed(r, st, "insert", importers[r].i)

\* the INSERT of another connection holds the key uncommitted: the unique
\* index makes this INSERT wait until that transaction commits or rolls
\* back (UNIQUE(text_original, language_original), line 56)
must_wait(r, text, lang) ==
    existing(importers[OtherRun(r)].pending, text, lang)

\* lines 346-362 for the record at i: the INSERT, the counter, the batch
\* commit, or the except clause
ImporterInsert(r) ==
    /\ importers[r].pc = "insert"
    /\ LET quote == fs[CORPUS_JSON].data[importers[r].i]
           st == Txn(r)
           next == importers[r].i + 1
           text == strip(quote.text)
           lang == IF quote.lang = MissingLang THEN "en" ELSE quote.lang
       IN  /\ ~must_wait(r, text, lang)
           /\ IF insert_raises(visible_rows(st), text, lang, quote.author)
              THEN Proceed(r, on_error(st), "check", next)
              ELSE LET saved == [st EXCEPT
                                   !.pending = Append(@, Row(text, lang,
                                        quote.author, quote.source,
                                        <<"general">>)),
                                   !.stats.saved = @ + 1]
                   IN  Proceed(r, IF saved.stats.saved % COMMIT_EVERY = 0
                                  THEN commit(saved) ELSE saved,
                               "check", next)

\* each run waits for the other's transaction: the store ends the wait by
\* making the INSERT of one of them raise, which the except clause of
\* lines 358-362 answers as any other error
waits(r) ==
    /\ importers[r].pc = "insert"
    /\ LET quote == fs[CORPUS_JSON].data[importers[r].i] IN
       must_wait(r, strip(quote.text),
                 IF quote.lang = MissingLang THEN "en" ELSE quote.lang)

ImporterDeadlock(r) ==
    /\ waits(r)
    /\ waits(OtherRun(r))
    /\ Proceed(r, on_error(Txn(r)), "check", importers[r].i + 1)

\* line 364: conn.commit() after the loop
ImporterFinish(r) ==
    /\ importers[r].pc = "check"
    /\ importers[r].i > Len(fs[CORPUS_JSON].data)
    /\ Proceed(r, commit(Txn(r)), "done", importers[r].i)

ConcurrentNext ==
    \E r \in Runs :
        \/ ImporterConnect(r)
        \/ ImporterCheck(r)
        \/ ImporterInsert(r)
        \/ ImporterDeadlock(r)
        \/ ImporterFinish(r)

SpecConcurrent == ConcurrentInit /\ [][ConcurrentNext]_vars

---------------------------------------------------------------------------
(* Claims about concurrent imports.                                        *)

BothCompleted == \A r \in Runs : importers[r].pc = "done"

\* the corpus records whose text passes the filter and whose row fits
\* the columns of the table
Insertable ==
    LET qs == fs[CORPUS_JSON].data IN
    {i \in DOMAIN qs :
        /\ qs[i].text # NullText
        /\ RecordText(qs[i]) # <<>>
        /\ valid(RecordText(qs[i]))
        /\ author_length(qs[i].author) <= MAX_AUTHOR}

RowsOf(rows, q) ==
    {k \in DOMAIN rows :
        /\ rows[k].text_original = RecordText(q)
        /\ rows[k].language_original = RecordLang(q)}

\* no record of the corpus makes its own INSERT raise
NoRaisingRecord ==
    \A i \in DOMAIN fs[CORPUS_JSON].data :
        /\ fs[CORPUS_JSON].data[i].text # NullText
        /\ author_length(fs[CORPUS_JSON].data[i].author) <= MAX_AUTHOR

PersistedOnce ==
    \A i \in Insertable :
        Cardinality(RowsOf(store, fs[CORPUS_JSON].data[i])) = 1

\* C39 (as stated): while two runs import the same corpus into the same
\* store no two committed rows share (text_original, language_original),
\* and once both runs have completed every valid corpus record has exactly
\* one row; checked for the corpora none of whose records raises on its own
C39_ConcurrentImportsPersistOnce ==
    /\ UniqueKeys(store)
    /\ (BothCompleted /\ NoRaisingRecord) => PersistedOnce

\* what does hold: two runs that both keep the existing rows lose nothing
PersistedOnceWithoutClear ==
    (BothCompleted /\ NoRaisingRecord /\ \A r \in Runs : ~importers[r].clear)
        => PersistedOnce

============================================================================
